---- MODULE Spec2Model ----
(***************************************************************************)
(* A model of the markdown-ognile webview: the text formatting engine      *)
(* (formatting.ts), the multi-range orchestrator, the decoration builder   *)
(* and the table / checkbox widgets (decorations/index.ts).                *)
(*                                                                         *)
(* Texts are sequences of one-character strings; offsets are the 0-based   *)
(* offsets of the source, so text[i] of the source is text[i + 1] here.    *)
(***************************************************************************)
EXTENDS Integers, Sequences, FiniteSets, TLC

VARIABLES
    \* ---- formatting engine harness (applyCommandToText applied in a row)
    fText,      \* the text handed to the first application
    fSel,       \* the selection handed to the first application
    fCmd,       \* the format command
    fPrefs,     \* FormattingPreferences
    fOpts,      \* FormattingOptions
    fStage,     \* number of applications done so far
    fRes1,      \* TextFormatResult of the first application
    fSel2,      \* the selection handed to the second application
    fRes2,      \* TextFormatResult of the second application
    \* ---- the editor
    viewDoc,    \* view.state.doc
    viewSel,    \* view.state.selection: [ranges, main]
    prefs,      \* getFormattingPreferences(editorSettings)
    ev,         \* the handler that ran last, with what it saw and did
    viewTree,   \* syntaxTree(view.state): the nodes in pre-order
    decos,      \* view.state.field(decorationField)
    tables,     \* the table widget DOMs the view has drawn
    activeCell, \* document.activeElement when it is a table cell
    timers,     \* the blur timers (setTimeout 0) not yet run
    inputs,     \* number of user inputs handled so far
    \* ---- the messages between the view and its host
    toHost,     \* LinkInput messages the host has not answered yet
    toView,     \* LinkInputResult messages on their way to the view: the urls
    \* ---- the synchronisation of edits between the panels and the documents
    workspace,  \* the extension host: documents, applyEdit calls, its timeouts
    provider,   \* the fields of the OgnileEditorProvider
    webviews    \* per panel: the webview's content, its sync module, its messages

fmtVars == <<fText, fSel, fCmd, fPrefs, fOpts, fStage, fRes1, fSel2, fRes2>>
uiVars == <<viewTree, decos, tables, activeCell, timers, inputs>>
syncVars == <<workspace, provider, webviews>>
linkVars == <<toHost, toView, syncVars>>
edVars == <<viewDoc, viewSel, prefs, ev, viewTree, decos, tables, activeCell, timers, inputs,
            toHost, toView, syncVars>>
vars == <<fText, fSel, fCmd, fPrefs, fOpts, fStage, fRes1, fSel2, fRes2,
          viewDoc, viewSel, prefs, ev,
          viewTree, decos, tables, activeCell, timers, inputs, toHost, toView,
          workspace, provider, webviews>>

(***************************************************************************)
(* Bounds of the model.                                                    *)
(***************************************************************************)
MaxLen == 4
OrchMaxLen == 4
MaxRanges == 2
DecoMaxRanges == 1
MaxInputs == 3
MaxRows == 2
MaxCols == 2
MaxCell == 2
EngMaxLen == 3
EngMaxPieces == 4
GridMaxCols == 3
MaxRequests == 2
OverlapMaxPos == 3
FenceMaxRanges == 2
TableMaxLine == 4
NumPanels == 2
SyncMaxInputs == 3
MaxExternal == 1
MaxMessages == 2

(***************************************************************************)
(* Generic helpers.                                                        *)
(***************************************************************************)
Min(a, b) == IF a <= b THEN a ELSE b
Max(a, b) == IF a >= b THEN a ELSE b

\* All sequences over alphabet A of length 0..n.
SeqsUpTo(A, n) == UNION { [1..k -> A] : k \in 0..n }

\* String.prototype.slice(from, to) for 0 <= from, with the end clamped.
Slice(text, from, to) ==
    LET t == Min(to, Len(text))
    IN IF from >= t THEN << >> ELSE SubSeq(text, from + 1, t)

\* text[i] of the source; "undefined" outside the text.
CharAt(text, i) == IF i >= 0 /\ i < Len(text) THEN text[i + 1] ELSE "undefined"

StartsWith(text, prefix) ==
    Len(text) >= Len(prefix) /\ SubSeq(text, 1, Len(prefix)) = prefix

EndsWith(text, suffix) ==
    Len(text) >= Len(suffix)
    /\ SubSeq(text, Len(text) - Len(suffix) + 1, Len(text)) = suffix

\* String.prototype.indexOf(pat, start): least i >= start with pat at i, else -1.
IndexOf(text, pat, start) ==
    LET hits == { i \in start..(Len(text) - Len(pat)) :
                    SubSeq(text, i + 1, i + Len(pat)) = pat }
    IN IF hits = {} THEN -1 ELSE CHOOSE i \in hits : \A j \in hits : i <= j

(***************************************************************************)
(* formatting.ts: the text formatting engine.                              *)
(***************************************************************************)
Commands == {"bold", "italic", "strikethrough", "link"}
MarkerCommands == {"bold", "italic", "strikethrough"}

Preferences ==
    [emptySelectionBehavior : {"word", "markers"},
     italicDelimiter : {"underscore", "asterisk"}]

\* WORD_CHAR = /[A-Za-z0-9_]/
WORD_CHAR ==
    {"A", "B", "C", "D", "E", "F", "G", "H", "I", "J", "K", "L", "M",
     "N", "O", "P", "Q", "R", "S", "T", "U", "V", "W", "X", "Y", "Z",
     "a", "b", "c", "d", "e", "f", "g", "h", "i", "j", "k", "l", "m",
     "n", "o", "p", "q", "r", "s", "t", "u", "v", "w", "x", "y", "z",
     "0", "1", "2", "3", "4", "5", "6", "7", "8", "9", "_"}

isWordChar(char) == char \in WORD_CHAR

clamp(value, min, max) == Max(min, Min(max, value))

\* normalizeSelection that clamps and does not order.
normalizeUnordered(selection, maxLength) ==
    [from |-> clamp(selection.from, 0, maxLength),
     to |-> clamp(selection.to, 0, maxLength)]

normalizeSelection(selection, maxLength) ==
    LET from == clamp(selection.from, 0, maxLength)
        to == clamp(selection.to, 0, maxLength)
    IN IF from <= to THEN [from |-> from, to |-> to]
                     ELSE [from |-> to, to |-> from]

\* replaceRange that keeps the replaced characters after the replacement.
replaceRangeKeeping(text, from, to, replacement) ==
    Slice(text, 0, from) \o replacement \o Slice(text, from, Len(text))

replaceRange(text, from, to, replacement) ==
    Slice(text, 0, from) \o replacement \o Slice(text, to, Len(text))

\* The null of expandSelectionToWord.
NoSelection == [from |-> -1, to |-> -1]

RECURSIVE WordLeft(_, _)
WordLeft(text, from) ==
    IF from > 0 /\ isWordChar(CharAt(text, from - 1))
    THEN WordLeft(text, from - 1) ELSE from

RECURSIVE WordRight(_, _)
WordRight(text, to) ==
    IF to < Len(text) /\ isWordChar(CharAt(text, to))
    THEN WordRight(text, to + 1) ELSE to

\* expandSelectionToWord that takes a word only when the caret stands before
\* one of its characters.
expandSelectionForward(text, pos) ==
    IF Len(text) = 0 THEN NoSelection
    ELSE LET p0 == clamp(pos, 0, Len(text))
         IN IF p0 < Len(text) /\ isWordChar(CharAt(text, p0))
            THEN [from |-> WordLeft(text, p0), to |-> WordRight(text, p0 + 1)]
            ELSE NoSelection

expandSelectionToWord(text, pos) ==
    IF Len(text) = 0 THEN NoSelection
    ELSE LET p0 == clamp(pos, 0, Len(text))
             pivot == IF p0 < Len(text) /\ isWordChar(CharAt(text, p0)) THEN p0
                      ELSE IF p0 > 0 /\ isWordChar(CharAt(text, p0 - 1)) THEN p0 - 1
                      ELSE -1
         IN IF pivot = -1 THEN NoSelection
            ELSE [from |-> WordLeft(text, pivot), to |-> WordRight(text, pivot + 1)]

resolveTargetSelection(text, selection, preferences) ==
    LET normalized == normalizeSelection(selection, Len(text))
    IN IF normalized.from # normalized.to THEN normalized
       ELSE IF preferences.emptySelectionBehavior = "word"
            THEN LET w == expandSelectionToWord(text, normalized.from)
                 IN IF w = NoSelection THEN normalized ELSE w
            ELSE normalized

isWrappedSelection(selected, marker) ==
    /\ Len(selected) >= Len(marker) * 2
    /\ StartsWith(selected, marker)
    /\ EndsWith(selected, marker)
    /\ (Len(marker) = 1 =>
          /\ ~StartsWith(selected, marker \o marker)
          /\ ~EndsWith(selected, marker \o marker))

\* hasSurroundingMarkers without the test for a doubled marker.
hasSurroundingAny(text, from, to, marker) ==
    /\ ~(from < Len(marker) \/ to + Len(marker) > Len(text))
    /\ Slice(text, from - Len(marker), from) = marker
    /\ Slice(text, to, to + Len(marker)) = marker
hasSurroundingMarkers(text, from, to, marker) ==
    /\ ~(from < Len(marker) \/ to + Len(marker) > Len(text))
    /\ Slice(text, from - Len(marker), from) = marker
    /\ Slice(text, to, to + Len(marker)) = marker
    /\ (Len(marker) = 1 =>
          /\ CharAt(text, from - Len(marker) - 1) # marker[1]
          /\ CharAt(text, to + Len(marker)) # marker[1])

\* A TextFormatResult; every branch of the source supplies `change`.
FormatResult(text, updated, selFrom, selTo, chFrom, chTo, insert) ==
    [text |-> updated,
     selection |-> [from |-> selFrom, to |-> selTo],
     changed |-> (updated # text),
     change |-> [from |-> chFrom, to |-> chTo, insert |-> insert]]

formatMarker(text, selection, marker, preferences) ==
    LET target == resolveTargetSelection(text, selection, preferences)
        selected == Slice(text, target.from, target.to)
        m == Len(marker)
    IN IF target.from = target.to
       THEN LET insertion == marker \o marker
                caret == target.from + m
            IN FormatResult(text, replaceRange(text, target.from, target.to, insertion),
                            caret, caret, target.from, target.to, insertion)
       ELSE IF isWrappedSelection(selected, marker)
       THEN LET inner == Slice(selected, m, Len(selected) - m)
            IN FormatResult(text, replaceRange(text, target.from, target.to, inner),
                            target.from, target.from + Len(inner),
                            target.from, target.to, inner)
       ELSE IF hasSurroundingMarkers(text, target.from, target.to, marker)
       THEN LET start == target.from - m
                end == target.to + m
            IN FormatResult(text, replaceRange(text, start, end, selected),
                            start, start + Len(selected), start, end, selected)
       ELSE LET wrapped == marker \o selected \o marker
            IN FormatResult(text, replaceRange(text, target.from, target.to, wrapped),
                            target.from + m, target.to + m,
                            target.from, target.to, wrapped)

\* /^\[([^\]]+)\]\(([^\n)]+)\)$/ : the label, or NoLabel when there is no match.
NoLabel == <<"null">>

tryUnwrapFullLink(selectionText) ==
    LET n == Len(selectionText)
        close == IndexOf(selectionText, <<"]">>, 0)
    IN IF /\ n >= 6
          /\ selectionText[1] = "["
          /\ close >= 2
          /\ CharAt(selectionText, close + 1) = "("
          /\ close + 2 <= n - 2
          /\ \A i \in (close + 2)..(n - 2) :
                CharAt(selectionText, i) \notin {")", "\n"}
          /\ selectionText[n] = ")"
       THEN Slice(selectionText, 1, close)
       ELSE NoLabel

\* The null of tryUnwrapLinkAroundSelection.
NoResult == [text |-> << >>, selection |-> NoSelection, changed |-> FALSE,
             change |-> [from |-> -1, to |-> -1, insert |-> << >>]]

\* tryUnwrapLinkAroundSelection that never finds a wrapper.
tryUnwrapLinkNever(text, selection) == NoResult

tryUnwrapLinkAroundSelection(text, selection) ==
    IF selection.from = 0 \/ CharAt(text, selection.from - 1) # "["
    THEN NoResult
    ELSE LET labelEnd == IndexOf(text, <<"]", "(">>, selection.to)
         IN IF labelEnd # selection.to THEN NoResult
            ELSE LET urlEnd == IndexOf(text, <<")">>, labelEnd + 2)
                 IN IF urlEnd = -1 THEN NoResult
                    ELSE LET label == Slice(text, selection.from, selection.to)
                         IN FormatResult(text,
                               replaceRange(text, selection.from - 1, urlEnd + 1, label),
                               selection.from - 1, selection.from - 1 + Len(label),
                               selection.from - 1, urlEnd + 1, label)

\* options.linkUrl when the caller supplies none.
NoUrl == <<"undefined">>
DefaultUrl == <<"h", "t", "t", "p", "s", ":", "/", "/">>
DefaultLinkText == <<"l", "i", "n", "k", " ", "t", "e", "x", "t">>

formatLink(text, selection, preferences, options) ==
    LET target == resolveTargetSelection(text, selection, preferences)
        selected == Slice(text, target.from, target.to)
        fullyWrapped == tryUnwrapFullLink(selected)
        surrounding == tryUnwrapLinkAroundSelection(text, target)
        url == IF options.linkUrl = NoUrl THEN DefaultUrl ELSE options.linkUrl
    IN IF fullyWrapped # NoLabel
       THEN FormatResult(text, replaceRange(text, target.from, target.to, fullyWrapped),
                         target.from, target.from + Len(fullyWrapped),
                         target.from, target.to, fullyWrapped)
       ELSE IF surrounding # NoResult THEN surrounding
       ELSE LET label == IF target.from = target.to THEN DefaultLinkText ELSE selected
                markdown == <<"[">> \o label \o <<"]", "(">> \o url \o <<")">>
            IN FormatResult(text, replaceRange(text, target.from, target.to, markdown),
                            target.from + 1, target.from + 1 + Len(label),
                            target.from, target.to, markdown)

italicMarker(preferences) ==
    IF preferences.italicDelimiter = "underscore" THEN <<"_">> ELSE <<"*">>

applyCommandToText(text, selection, command, preferences, options) ==
    CASE command = "bold" -> formatMarker(text, selection, <<"*", "*">>, preferences)
      [] command = "italic" ->
            formatMarker(text, selection, italicMarker(preferences), preferences)
      [] command = "strikethrough" ->
            formatMarker(text, selection, <<"~", "~">>, preferences)
      [] command = "link" -> formatLink(text, selection, preferences, options)

(***************************************************************************)
(* @codemirror/state ChangeSet, as the orchestrator and the widgets use it *)
(* (ChangeSet.of, mapPos, and the change set a dispatch applies).  A set   *)
(* is a sequence of sections: `len` characters of the old document that    *)
(* are kept (ins = -1) or replaced by `text` (ins = Len(text)).            *)
(***************************************************************************)
addSection(sections, len, ins, text, forceJoin) ==
    LET n == Len(sections)
    IN IF len = 0 /\ ins <= 0 THEN sections
       ELSE IF n > 0 /\ ins <= 0 /\ ins = sections[n].ins
            THEN [sections EXCEPT ![n].len = @ + len]
       ELSE IF n > 0 /\ len = 0 /\ sections[n].len = 0
            THEN [sections EXCEPT ![n].ins = @ + ins, ![n].text = @ \o text]
       ELSE IF forceJoin /\ n > 0
            THEN [sections EXCEPT ![n].len = @ + len, ![n].ins = @ + ins,
                                  ![n].text = @ \o text]
       ELSE Append(sections, [len |-> len, ins |-> ins, text |-> text])

\* ChangeDesc.empty
csEmpty(set) == Len(set) = 0 \/ (Len(set) = 1 /\ set[1].ins < 0)

\* ChangeDesc.length / newLength
RECURSIVE csLength(_)
csLength(set) ==
    IF set = << >> THEN 0 ELSE set[1].len + csLength(Tail(set))

RECURSIVE csNewLength(_)
csNewLength(set) ==
    IF set = << >> THEN 0
    ELSE (IF set[1].ins < 0 THEN set[1].len ELSE set[1].ins) + csNewLength(Tail(set))

\* ChangeSet.apply(doc)
RECURSIVE csApply(_, _)
csApply(set, doc) ==
    IF set = << >> THEN << >>
    ELSE (IF set[1].ins < 0 THEN Slice(doc, 0, set[1].len) ELSE set[1].text)
         \o csApply(Tail(set), Slice(doc, set[1].len, Len(doc)))

\* SectionIter: the section at index k of a set, or the done iterator.
sectionIter(set, k) ==
    IF k <= Len(set)
    THEN [k |-> k, len |-> set[k].len, ins |-> set[k].ins, off |-> 0,
          text |-> set[k].text]
    ELSE [k |-> k, len |-> 0, ins |-> -2, off |-> 0, text |-> << >>]

iterDone(it) == it.ins = -2
iterNext(set, it) == sectionIter(set, it.k + 1)
iterForward(set, it, len) ==
    IF len = it.len THEN iterNext(set, it)
    ELSE [it EXCEPT !.len = @ - len, !.off = @ + len]
iterForward2(set, it, len) ==
    IF it.ins = -1 THEN iterForward(set, it, len)
    ELSE IF len = it.ins THEN iterNext(set, it)
    ELSE [it EXCEPT !.ins = @ - len, !.off = @ + len]
iterLen2(it) == IF it.ins < 0 THEN it.len ELSE it.ins

\* mapSet, second branch: skip a change of B and the changes of A it covers.
RECURSIVE mapSkipCovered(_, _, _, _, _)
mapSkipCovered(setA, a, len, inserted, out) ==
    IF len = 0 \/ iterDone(a) THEN [a |-> a, inserted |-> inserted, out |-> out]
    ELSE LET piece == Min(a.len, len)
             add == a.ins >= 0 /\ inserted < a.k /\ a.len <= piece
         IN mapSkipCovered(setA, iterForward(setA, a, piece), len - piece,
                           IF add THEN a.k ELSE inserted,
                           IF add THEN addSection(out, 0, a.ins, a.text, FALSE) ELSE out)

\* mapSet, third branch: the part of a change of A up to the next change of B.
RECURSIVE mapSpanB(_, _, _, _)
mapSpanB(setB, b, len, left) ==
    IF left = 0 THEN [b |-> b, len |-> len, left |-> left]
    ELSE IF b.ins = -1
         THEN LET piece == Min(left, b.len)
              IN mapSpanB(setB, iterForward(setB, b, piece), len + piece, left - piece)
    ELSE IF b.ins = 0 /\ b.len < left
         THEN mapSpanB(setB, iterNext(setB, b), len, left - b.len)
    ELSE [b |-> b, len |-> len, left |-> left]

\* mapSet(setA, setB, before, mkSet = true): setA, to apply after setB.
RECURSIVE mapSetLoop(_, _, _, _, _, _, _)
mapSetLoop(setA, setB, before, a, b, inserted, out) ==
    IF (iterDone(a) /\ b.len > 0) \/ (iterDone(b) /\ a.len > 0) THEN out
    ELSE IF a.ins = -1 /\ b.ins = -1
    THEN LET len == Min(a.len, b.len)
         IN mapSetLoop(setA, setB, before, iterForward(setA, a, len),
                       iterForward(setB, b, len), inserted,
                       addSection(out, len, -1, << >>, FALSE))
    ELSE IF b.ins >= 0
            /\ (a.ins < 0 \/ inserted = a.k
                \/ (a.off = 0 /\ (b.len < a.len \/ (b.len = a.len /\ ~before))))
    THEN LET r == mapSkipCovered(setA, a, b.len, inserted,
                                 addSection(out, b.ins, -1, << >>, FALSE))
         IN mapSetLoop(setA, setB, before, r.a, iterNext(setB, b), r.inserted, r.out)
    ELSE IF a.ins >= 0
    THEN LET r == mapSpanB(setB, b, 0, a.len)
             fresh == inserted < a.k
         IN mapSetLoop(setA, setB, before, iterForward(setA, a, a.len - r.left),
                       r.b, a.k,
                       addSection(out, r.len, IF fresh THEN a.ins ELSE 0,
                                  IF fresh THEN a.text ELSE << >>, FALSE))
    ELSE out

\* ChangeSet.map(other)
csMap(set, other) ==
    IF csEmpty(other) THEN set
    ELSE mapSetLoop(set, other, FALSE, sectionIter(set, 1), sectionIter(other, 1),
                    0, << >>)

\* composeSets(setA, setB, mkSet = true)
RECURSIVE composeLoop(_, _, _, _, _, _)
composeLoop(setA, setB, a, b, open, out) ==
    IF iterDone(a) /\ iterDone(b) THEN out
    ELSE IF a.ins = 0
    THEN composeLoop(setA, setB, iterNext(setA, a), b, open,
                     addSection(out, a.len, 0, << >>, open))
    ELSE IF b.len = 0 /\ ~iterDone(b)
    THEN composeLoop(setA, setB, a, iterNext(setB, b), open,
                     addSection(out, 0, b.ins, b.text, open))
    ELSE IF iterDone(a) \/ iterDone(b) THEN out
    ELSE LET len == Min(iterLen2(a), b.len)
             out1 ==
                IF a.ins = -1
                THEN LET insB == IF b.ins = -1 THEN -1
                                 ELSE IF b.off > 0 THEN 0 ELSE b.ins
                     IN addSection(out, len, insB,
                                   IF insB > 0 THEN b.text ELSE << >>, open)
                ELSE IF b.ins = -1
                THEN addSection(out, IF a.off > 0 THEN 0 ELSE a.len, len,
                                Slice(a.text, a.off, a.off + len), open)
                ELSE addSection(out, IF a.off > 0 THEN 0 ELSE a.len,
                                IF b.off > 0 THEN 0 ELSE b.ins,
                                IF b.off > 0 THEN << >> ELSE b.text, open)
             open1 == (a.ins > len \/ (b.ins >= 0 /\ b.len > len))
                      /\ (open \/ Len(out1) > Len(out))
         IN composeLoop(setA, setB, iterForward2(setA, a, len),
                        iterForward(setB, b, len), open1, out1)

\* ChangeSet.compose(other)
csCompose(set, other) ==
    IF csEmpty(set) THEN other
    ELSE IF csEmpty(other) THEN set
    ELSE composeLoop(set, other, sectionIter(set, 1), sectionIter(other, 1),
                     FALSE, << >>)

\* ChangeSet.of, flush(): the pending sections joined into the total.
csFlush(total, sections, pos, length, force) ==
    IF ~force /\ sections = << >> THEN total
    ELSE LET set == IF pos < length
                    THEN addSection(sections, length - pos, -1, << >>, FALSE)
                    ELSE sections
         IN IF total = << >> THEN <<set>>
            ELSE <<csCompose(total[1], csMap(set, total[1]))>>

\* ChangeSet.of(changes, length): [threw, set].  `total` is << >> or <<set>>.
RECURSIVE csOfLoop(_, _, _, _, _, _)
csOfLoop(changes, length, i, sections, pos, total) ==
    IF i > Len(changes)
    THEN [threw |-> FALSE,
          set |-> csFlush(total, sections, pos, length, total = << >>)[1]]
    ELSE LET c == changes[i]
             insLen == Len(c.insert)
         IN IF c.from > c.to \/ c.from < 0 \/ c.to > length
            THEN [threw |-> TRUE, set |-> << >>]
            ELSE IF c.from = c.to /\ insLen = 0
            THEN csOfLoop(changes, length, i + 1, sections, pos, total)
            ELSE LET flushed == c.from < pos
                     total1 == IF flushed
                               THEN csFlush(total, sections, pos, length, FALSE)
                               ELSE total
                     sec0 == IF flushed THEN << >> ELSE sections
                     pos0 == IF flushed THEN 0 ELSE pos
                     sec1 == IF c.from > pos0
                             THEN addSection(sec0, c.from - pos0, -1, << >>, FALSE)
                             ELSE sec0
                     sec2 == addSection(sec1, c.to - c.from, insLen, c.insert, FALSE)
                 IN csOfLoop(changes, length, i + 1, sec2, c.to, total1)

ChangeSetOf(changes, length) == csOfLoop(changes, length, 1, << >>, 0, << >>)

\* ChangeDesc.mapPos(pos, assoc), MapMode.Simple.
RECURSIVE mapPosLoop(_, _, _, _, _, _)
mapPosLoop(set, i, posA, posB, pos, assoc) ==
    IF i > Len(set) THEN posB
    ELSE LET len == set[i].len
             ins == set[i].ins
             endA == posA + len
         IN IF ins < 0
            THEN IF endA > pos THEN posB + (pos - posA)
                 ELSE mapPosLoop(set, i + 1, endA, posB + len, pos, assoc)
            ELSE IF endA > pos \/ (endA = pos /\ assoc < 0 /\ len = 0)
                 THEN IF pos = posA \/ assoc < 0 THEN posB ELSE posB + ins
                 ELSE mapPosLoop(set, i + 1, endA, posB + ins, pos, assoc)

mapPos(set, pos, assoc) == mapPosLoop(set, 1, 0, 0, pos, assoc)

(***************************************************************************)
(* @codemirror/state EditorSelection: [ranges, main], ranges a sequence of *)
(* [from, to] and main the 0-based index of the main range.                *)
(***************************************************************************)
\* The test of EditorSelection.create and normalized: range r collides with
\* the end `pos` of what precedes it.
selCollides(r, pos) == IF r.from = r.to THEN r.from <= pos ELSE r.from < pos

\* ranges.sort((a, b) => a.from - b.from), stable: the indices in order.
sortByFrom(ranges) ==
    CHOOSE p \in [1..Len(ranges) -> 1..Len(ranges)] :
        /\ \A i, j \in 1..Len(ranges) : i # j => p[i] # p[j]
        /\ \A i, j \in 1..Len(ranges) : i < j =>
              \/ ranges[p[i]].from < ranges[p[j]].from
              \/ (ranges[p[i]].from = ranges[p[j]].from /\ p[i] < p[j])

\* The merge loop of EditorSelection.normalized over sorted ranges.
RECURSIVE selMerge(_, _, _)
selMerge(ranges, i, main) ==
    IF i > Len(ranges) THEN [ranges |-> ranges, main |-> main]
    ELSE LET range == ranges[i]
             prev == ranges[i - 1]
         IN IF selCollides(range, prev.to)
            THEN LET merged == [from |-> prev.from, to |-> Max(range.to, prev.to)]
                     rs == SubSeq(ranges, 1, i - 2) \o <<merged>>
                           \o SubSeq(ranges, i + 1, Len(ranges))
                 IN selMerge(rs, i, IF i - 1 <= main THEN main - 1 ELSE main)
            ELSE selMerge(ranges, i + 1, main)

selNormalized(ranges, mainIndex) ==
    LET p == sortByFrom(ranges)
        sorted == [i \in 1..Len(ranges) |-> ranges[p[i]]]
        main == (CHOOSE i \in 1..Len(ranges) : p[i] = mainIndex + 1) - 1
    IN selMerge(sorted, 2, main)

RECURSIVE selNeedsNormalizing(_, _, _)
selNeedsNormalizing(ranges, i, pos) ==
    IF i > Len(ranges) THEN FALSE
    ELSE selCollides(ranges[i], pos) \/ selNeedsNormalizing(ranges, i + 1, ranges[i].to)

\* EditorSelection.create(ranges, mainIndex)
EditorSelectionCreate(ranges, mainIndex) ==
    IF selNeedsNormalizing(ranges, 1, 0) THEN selNormalized(ranges, mainIndex)
    ELSE [ranges |-> ranges, main |-> mainIndex]

(***************************************************************************)
(* formatting.ts: applyFormattingToEditor, the multi-range orchestrator.   *)
(***************************************************************************)
\* Number.MAX_SAFE_INTEGER, as the largest integer of the model checker.
MAX_SAFE_INTEGER == 2147483647

\* `order`: the range indices sorted by descending from, then descending to.
orchOrder(ranges) ==
    CHOOSE p \in [1..Len(ranges) -> 1..Len(ranges)] :
        /\ \A i, j \in 1..Len(ranges) : i # j => p[i] # p[j]
        /\ \A i, j \in 1..Len(ranges) : i < j =>
              \/ ranges[p[i]].from > ranges[p[j]].from
              \/ (ranges[p[i]].from = ranges[p[j]].from
                  /\ ranges[p[i]].to > ranges[p[j]].to)
              \/ (ranges[p[i]] = ranges[p[j]] /\ p[i] < p[j])

\* changes.slice().sort((a, b) => a.from - b.from || a.to - b.to), stable.
sortChanges(changes) ==
    LET p == CHOOSE q \in [1..Len(changes) -> 1..Len(changes)] :
                /\ \A i, j \in 1..Len(changes) : i # j => q[i] # q[j]
                /\ \A i, j \in 1..Len(changes) : i < j =>
                      \/ changes[q[i]].from < changes[q[j]].from
                      \/ (changes[q[i]].from = changes[q[j]].from
                          /\ changes[q[i]].to < changes[q[j]].to)
                      \/ (changes[q[i]].from = changes[q[j]].from
                          /\ changes[q[i]].to = changes[q[j]].to /\ q[i] < q[j])
    IN [i \in 1..Len(changes) |-> changes[p[i]]]

\* The local variables of applyFormattingToEditor before its loop.
orchStart(text, ranges) ==
    [nextText |-> text, ranges |-> ranges, processedIndices |-> << >>,
     changes |-> << >>, hasDocumentChange |-> FALSE,
     overlapGuard |-> MAX_SAFE_INTEGER, skipped |-> << >>]

\* The end of one iteration: the other processed ranges mapped through the
\* change, and the bookkeeping of the loop.
orchRemap(st, index, result, map) ==
    [nextText |-> result.text,
     ranges |-> [i \in 1..Len(st.ranges) |->
                    IF i = index THEN result.selection
                    ELSE IF result.changed
                            /\ \E k \in 1..Len(st.processedIndices) :
                                  st.processedIndices[k] = i
                    THEN [from |-> mapPos(map, st.ranges[i].from, -1),
                          to |-> mapPos(map, st.ranges[i].to, 1)]
                    ELSE st.ranges[i]],
     processedIndices |-> Append(st.processedIndices, index),
     changes |-> IF result.changed THEN Append(st.changes, result.change)
                 ELSE st.changes,
     hasDocumentChange |-> st.hasDocumentChange \/ result.changed,
     overlapGuard |-> Min(st.overlapGuard, result.change.from),
     skipped |-> st.skipped]

\* `map`: the change of this iteration as a ChangeSet over beforeText.
orchMap(st, index, result) ==
    orchRemap(st, index, result,
              ChangeSetOf(<<result.change>>, Len(st.nextText)).set)

\* One iteration of the loop, for the range of index `index` (1-based).
orchStep(st, index, command, preferences, options) ==
    IF st.ranges[index].to > st.overlapGuard
    THEN [st EXCEPT !.skipped = Append(@, index)]
    ELSE orchMap(st, index,
                 applyCommandToText(st.nextText, st.ranges[index], command,
                                    preferences, options))

RECURSIVE orchLoop(_, _, _, _, _, _)
orchLoop(st, order, i, command, preferences, options) ==
    IF i > Len(order) THEN st
    ELSE orchLoop(orchStep(st, order[i], command, preferences, options),
                  order, i + 1, command, preferences, options)

\* The end of applyFormattingToEditor: the selection and the combined change
\* are built and dispatched.  A change set that ChangeSet.of refuses, or a
\* selection that points outside the new document, throws.
orchDispatch(doc, selection, st, nextSelection, changeSet) ==
    LET selOutside == \E i \in 1..Len(nextSelection.ranges) :
                         nextSelection.ranges[i].to > csNewLength(changeSet.set)
        threw == st.hasDocumentChange /\ (changeSet.threw \/ selOutside)
        dispatched == st.hasDocumentChange /\ ~threw
    IN [returned |-> dispatched,
        threw |-> threw,
        dispatched |-> dispatched,
        doc |-> IF dispatched THEN csApply(changeSet.set, doc) ELSE doc,
        selection |-> IF dispatched THEN nextSelection ELSE selection,
        changes |-> IF dispatched THEN changeSet.set ELSE << >>,
        local |-> st]

orchFinish(doc, selection, st) ==
    orchDispatch(doc, selection, st,
                 EditorSelectionCreate(st.ranges, selection.main),
                 ChangeSetOf(sortChanges(st.changes), Len(doc)))

\* applyFormattingToEditor(view, command, preferences, options): what it
\* returns, whether it threw, the document and selection it leaves, and its
\* local variables at the end of the loop.
applyFormattingToEditor(doc, selection, command, preferences, options) ==
    orchFinish(doc, selection,
               orchLoop(orchStart(doc, selection.ranges), orchOrder(selection.ranges),
                        1, command, preferences, options))

(***************************************************************************)
(* decorations/index.ts: helpers over the document text.                   *)
(***************************************************************************)
NL == "\n"

\* The characters \s matches and String.prototype.trim strips.
isSpace(char) == char \in {" ", "\t", NL}

\* Text.lineAt(pos): the line around pos, [from, to, number].
lineFromAt(doc, pos) ==
    CHOOSE i \in 0..pos :
        /\ i = 0 \/ doc[i] = NL
        /\ \A j \in (i + 1)..pos : doc[j] # NL
lineToAt(doc, pos) ==
    CHOOSE j \in pos..Len(doc) :
        /\ j = Len(doc) \/ doc[j + 1] = NL
        /\ \A k \in (pos + 1)..j : doc[k] # NL
lineNumberAt(doc, pos) == 1 + Cardinality({ i \in 1..pos : doc[i] = NL })
lineAt(doc, pos) ==
    [from |-> lineFromAt(doc, Max(0, Min(pos, Len(doc)))),
     to |-> lineToAt(doc, Max(0, Min(pos, Len(doc)))),
     number |-> lineNumberAt(doc, Max(0, Min(pos, Len(doc))))]
lineText(doc, line) == Slice(doc, line.from, line.to)

\* Text.lines and Text.line(n) (n is 1-based).
docLines(doc) == 1 + Cardinality({ i \in 1..Len(doc) : doc[i] = NL })
lineStart(doc, n) ==
    IF n = 1 THEN 0
    ELSE CHOOSE i \in 1..Len(doc) :
            doc[i] = NL /\ Cardinality({ j \in 1..i : doc[j] = NL }) = n - 1
docLine(doc, n) == lineAt(doc, lineStart(doc, n))

\* String.prototype.trim
trimStart(text) ==
    IF \A i \in 1..Len(text) : isSpace(text[i]) THEN << >>
    ELSE SubSeq(text, CHOOSE i \in 1..Len(text) :
                         ~isSpace(text[i]) /\ \A j \in 1..(i - 1) : isSpace(text[j]),
                Len(text))
trimEnd(text) ==
    IF \A i \in 1..Len(text) : isSpace(text[i]) THEN << >>
    ELSE SubSeq(text, 1, CHOOSE i \in 1..Len(text) :
                            ~isSpace(text[i]) /\ \A j \in (i + 1)..Len(text) : isSpace(text[j]))
trim(text) == trimEnd(trimStart(text))

\* The length of the run of characters of `chars` that starts text at offset i.
runLength(text, i, chars) ==
    IF i >= Len(text) THEN 0 ELSE
    CHOOSE n \in 0..(Len(text) - i) :
        /\ \A k \in 1..n : text[i + k] \in chars
        /\ (i + n = Len(text) \/ text[i + n + 1] \notin chars)

\* String.prototype.split(sep) for a one-character separator.
RECURSIVE split(_, _)
split(text, sep) ==
    IF \A i \in 1..Len(text) : text[i] # sep THEN <<text>>
    ELSE LET i == CHOOSE k \in 1..Len(text) :
                     text[k] = sep /\ \A j \in 1..(k - 1) : text[j] # sep
         IN <<SubSeq(text, 1, i - 1)>> \o split(SubSeq(text, i + 1, Len(text)), sep)

\* isRangeSelected(selectionRanges, from, to)
isRangeSelected(selectionRanges, from, to) ==
    \E i \in 1..Len(selectionRanges) :
        \/ selectionRanges[i].from >= from /\ selectionRanges[i].from <= to
        \/ /\ selectionRanges[i].from # selectionRanges[i].to
           /\ Min(selectionRanges[i].from, selectionRanges[i].to) < to
           /\ Max(selectionRanges[i].from, selectionRanges[i].to) > from

\* blockEnd(doc, from, to)
blockEnd(doc, from, to) ==
    IF Min(to, Len(doc)) > from
       /\ lineAt(doc, Min(to, Len(doc))).from = Min(to, Len(doc))
    THEN Min(to, Len(doc)) - 1
    ELSE Min(to, Len(doc))

\* forEachBlockLine(doc, from, to, callback): the lines the callback gets.
RECURSIVE blockLinesFrom(_, _, _)
blockLinesFrom(doc, pos, end) ==
    IF pos > end THEN << >>
    ELSE IF lineAt(doc, pos).to >= end \/ lineAt(doc, pos).number >= docLines(doc)
         THEN <<lineAt(doc, pos)>>
    ELSE <<lineAt(doc, pos)>> \o blockLinesFrom(doc, lineAt(doc, pos).to + 1, end)
forEachBlockLine(doc, from, to) == blockLinesFrom(doc, from, blockEnd(doc, from, to))

\* parseTableRow(line)
stripPipes(trimmed) ==
    IF StartsWith(trimmed, <<"|">>)
    THEN IF EndsWith(Tail(trimmed), <<"|">>)
         THEN SubSeq(trimmed, 2, Len(trimmed) - 1) ELSE Tail(trimmed)
    ELSE IF EndsWith(trimmed, <<"|">>) THEN SubSeq(trimmed, 1, Len(trimmed) - 1)
    ELSE trimmed
trimAll(cells) == [i \in 1..Len(cells) |-> trim(cells[i])]
parseTableRow(line) == trimAll(split(stripPipes(trim(line)), "|"))

\* /^:?-+:?$/
isAlignCell(cell) ==
    /\ Len(cell) >= 1
    /\ runLength(cell, IF cell[1] = ":" THEN 1 ELSE 0, {"-"}) >= 1
    /\ Len(cell) - (IF cell[1] = ":" THEN 1 ELSE 0)
          - runLength(cell, IF cell[1] = ":" THEN 1 ELSE 0, {"-"})
          = (IF cell[Len(cell)] = ":" /\ Len(cell) > 1 THEN 1 ELSE 0)

alignmentOf(cell) ==
    IF StartsWith(cell, <<":">>) /\ EndsWith(cell, <<":">>) THEN "center"
    ELSE IF EndsWith(cell, <<":">>) THEN "right"
    ELSE "left"

\* text.split('\n').filter(l => l.trim().length > 0)
nonBlank(lines) == SelectSeq(lines, LAMBDA l : trim(l) # << >>)

NoTable == [ok |-> FALSE, headers |-> << >>, rows |-> << >>, alignments |-> << >>]

\* parseTableText(text), from its non-blank lines on.
parseTableLines(lines) ==
    IF Len(lines) < 2 THEN NoTable
    ELSE IF \E i \in 1..Len(parseTableRow(lines[2])) :
               ~isAlignCell(parseTableRow(lines[2])[i])
    THEN NoTable
    ELSE [ok |-> TRUE,
          headers |-> parseTableRow(lines[1]),
          rows |-> [i \in 1..(Len(lines) - 2) |-> parseTableRow(lines[i + 2])],
          alignments |-> [i \in 1..Len(parseTableRow(lines[2])) |->
                             alignmentOf(parseTableRow(lines[2])[i])]]
parseTableText(text) == parseTableLines(nonBlank(split(text, NL)))

\* detectFrontmatter(doc): [end, propCount].
isDashLine(doc, n) == trim(lineText(doc, docLine(doc, n))) = <<"-", "-", "-">>
isPropLine(doc, n) == \E i \in 1..Len(lineText(doc, docLine(doc, n))) :
                          lineText(doc, docLine(doc, n))[i] = ":"
detectFrontmatter(doc) ==
    IF docLines(doc) < 2 \/ ~isDashLine(doc, 1) THEN [end |-> 0, propCount |-> 0]
    ELSE IF \A i \in 2..docLines(doc) : ~isDashLine(doc, i)
    THEN [end |-> 0, propCount |-> 0]
    ELSE [end |-> docLine(doc, CHOOSE i \in 2..docLines(doc) :
                        isDashLine(doc, i) /\ \A j \in 2..(i - 1) : ~isDashLine(doc, j)).to,
          propCount |-> Cardinality({ j \in 2..docLines(doc) :
                          /\ \A k \in 2..j : ~isDashLine(doc, k)
                          /\ isPropLine(doc, j) })]

(***************************************************************************)
(* decorations/index.ts: the overlays.  A decoration is a record           *)
(* [type, class, attr, block, widget, from, to]; the set buildDecorations  *)
(* returns is the sequence of the ranges it pushed, in the order pushed.   *)
(***************************************************************************)
NoWidget == [type |-> "none"]

\* Decoration.line({class}).range(pos)
lineDeco(class, pos) ==
    [type |-> "line", class |-> class, attr |-> << >>, block |-> FALSE,
     widget |-> NoWidget, from |-> pos, to |-> pos]
\* Decoration.mark({class, attributes}).range(from, to)
markDeco(class, attr, from, to) ==
    [type |-> "mark", class |-> class, attr |-> attr, block |-> FALSE,
     widget |-> NoWidget, from |-> from, to |-> to]
\* hiddenReplace.range(from, to)
hiddenReplace(from, to) ==
    [type |-> "replace", class |-> "", attr |-> << >>, block |-> FALSE,
     widget |-> NoWidget, from |-> from, to |-> to]
\* Decoration.replace({widget, block}).range(from, to)
widgetDeco(widget, block, from, to) ==
    [type |-> "replace", class |-> "", attr |-> << >>, block |-> block,
     widget |-> widget, from |-> from, to |-> to]

FrontmatterWidget(propCount) == [type |-> "frontmatter", propCount |-> propCount]
TableWidget(headers, rows, alignments, docFrom, docTo) ==
    [type |-> "table", headers |-> headers, rows |-> rows,
     alignments |-> alignments, docFrom |-> docFrom, docTo |-> docTo]
ImageWidget(src, alt) == [type |-> "image", src |-> src, alt |-> alt]
HrWidget == [type |-> "hr"]
CodeBlockWidget(code, language) == [type |-> "code", code |-> code, language |-> language]
CheckboxWidget(checked, pos) == [type |-> "checkbox", checked |-> checked, pos |-> pos]
BulletWidget(depth) == [type |-> "bullet", depth |-> depth]
OrderedNumberWidget(label) == [type |-> "ordered", label |-> label]

\* Concatenation of a sequence of sequences.
RECURSIVE flatten(_)
flatten(seqs) == IF seqs = << >> THEN << >> ELSE Head(seqs) \o flatten(Tail(seqs))

\* --- Frontmatter ---
frontmatterDecos(doc, sel, fm) ==
    IF fm.end <= 0 THEN << >>
    ELSE IF ~isRangeSelected(sel, 0, fm.end)
    THEN <<widgetDeco(FrontmatterWidget(fm.propCount), TRUE, 0, fm.end)>>
    ELSE [i \in 1..lineAt(doc, fm.end).number |->
             lineDeco("cm-frontmatter-line", docLine(doc, i).from)]

\* --- Wiki links: /\[\[([^\]|]+)(?:\|([^\]]+))?\]\]/g over the full text ---
\* The match of the regex that starts at offset i: [ok, targetLen, aliasLen, to].
wikiMatchAt(text, i) ==
    LET t == IF StartsWith(Slice(text, i, i + 2), <<"[", "[">>)
             THEN runLength(text, i + 2, { c \in {text[k] : k \in 1..Len(text)} :
                                             c \notin {"]", "|"} })
             ELSE 0
        p == i + 2 + t
        a == IF t > 0 /\ CharAt(text, p) = "|"
             THEN runLength(text, p + 1, { c \in {text[k] : k \in 1..Len(text)} : c # "]" })
             ELSE 0
        q == IF a > 0 THEN p + 1 + a ELSE p
    IN [ok |-> t > 0 /\ Slice(text, q, q + 2) = <<"]", "]">>,
        targetLen |-> t, aliasLen |-> a, to |-> q + 2]

wikiMatchDecos(sel, fm, absFrom, m) ==
    IF fm.end > 0 /\ absFrom < fm.end THEN << >>
    ELSE IF m.aliasLen > 0
    THEN <<markDeco("cm-wiki-link", << >>, absFrom + 2 + m.targetLen + 1, m.to - 2)>>
         \o (IF ~isRangeSelected(sel, absFrom, m.to)
             THEN <<hiddenReplace(absFrom, absFrom + 2 + m.targetLen + 1),
                    hiddenReplace(m.to - 2, m.to)>>
             ELSE << >>)
    ELSE <<markDeco("cm-wiki-link", << >>, absFrom + 2, m.to - 2)>>
         \o (IF ~isRangeSelected(sel, absFrom, m.to)
             THEN <<hiddenReplace(absFrom, absFrom + 2), hiddenReplace(m.to - 2, m.to)>>
             ELSE << >>)

RECURSIVE wikiScan(_, _, _, _)
wikiScan(text, sel, fm, i) ==
    IF i + 4 > Len(text) THEN << >>
    ELSE IF wikiMatchAt(text, i).ok
    THEN wikiMatchDecos(sel, fm, i, wikiMatchAt(text, i))
         \o wikiScan(text, sel, fm, wikiMatchAt(text, i).to)
    ELSE wikiScan(text, sel, fm, i + 1)

wikiDecos(doc, sel, fm) == wikiScan(doc, sel, fm, 0)

(***************************************************************************)
(* The syntax tree: the nodes in document order (pre-order), each          *)
(* [name, from, to, parent] with parent the index of its parent node, 0    *)
(* for a child of the top node.                                            *)
(***************************************************************************)
\* tree.resolveInner(pos): the innermost node around pos (from < pos < to),
\* 0 for the top node.
resolveInner(tree, pos) ==
    IF \A i \in 1..Len(tree) : ~(tree[i].from < pos /\ pos < tree[i].to) THEN 0
    ELSE CHOOSE i \in 1..Len(tree) :
            /\ tree[i].from < pos /\ pos < tree[i].to
            /\ \A j \in (i + 1)..Len(tree) : ~(tree[j].from < pos /\ pos < tree[j].to)

isListName(name) == name \in {"BulletList", "OrderedList"}

\* The number of list nodes among the proper ancestors of node i.
RECURSIVE listAncestors(_, _)
listAncestors(tree, i) ==
    IF i = 0 \/ tree[i].parent = 0 THEN 0
    ELSE (IF isListName(tree[tree[i].parent].name) THEN 1 ELSE 0)
         + listAncestors(tree, tree[i].parent)

\* getListNestingDepth(state, pos)
getListNestingDepth(tree, pos) == Max(0, listAncestors(tree, resolveInner(tree, pos)) - 1)

\* The nearest ListItem among node i and its ancestors, 0 when there is none.
RECURSIVE enclosingItem(_, _)
enclosingItem(tree, i) ==
    IF i = 0 THEN 0
    ELSE IF tree[i].name = "ListItem" THEN i
    ELSE enclosingItem(tree, tree[i].parent)

\* The hierarchical walk of computeOrderedListLabel from the item `item` up.
RECURSIVE orderedSegments(_, _)
orderedSegments(tree, item) ==
    IF tree[item].parent = 0 \/ tree[tree[item].parent].name # "OrderedList" THEN << >>
    ELSE (IF tree[tree[item].parent].parent # 0
             /\ tree[tree[tree[item].parent].parent].name = "ListItem"
          THEN orderedSegments(tree, tree[tree[item].parent].parent)
          ELSE << >>)
         \o <<Cardinality({ s \in 1..item : /\ tree[s].name = "ListItem"
                                            /\ tree[s].parent = tree[item].parent })>>

\* computeOrderedListLabel(state, pos): the numbers the label joins with '.'.
computeOrderedListLabel(tree, pos) ==
    IF enclosingItem(tree, resolveInner(tree, pos)) = 0 THEN << >>
    ELSE orderedSegments(tree, enclosingItem(tree, resolveInner(tree, pos)))

Digits == {"0", "1", "2", "3", "4", "5", "6", "7", "8", "9"}

\* --- Table ---
tableWidgetDeco(parsed, from, to) ==
    IF parsed.ok
    THEN <<widgetDeco(TableWidget(parsed.headers, parsed.rows, parsed.alignments, from, to),
                      TRUE, from, to)>>
    ELSE << >>
tableDecos(doc, sel, node) ==
    IF isRangeSelected(sel, node.from, node.to) THEN << >>
    ELSE tableWidgetDeco(
            parseTableText(Slice(doc, lineAt(doc, node.from).from,
                                 lineAt(doc, blockEnd(doc, node.from, node.to)).to)),
            lineAt(doc, node.from).from,
            lineAt(doc, blockEnd(doc, node.from, node.to)).to)

\* --- Image: /^!\[([^\]]*)\]\(([^)]+)\)$/ ---
imageMatch(text) ==
    LET alt == runLength(text, 2, { c \in {text[k] : k \in 1..Len(text)} : c # "]" })
        src == runLength(text, 4 + alt, { c \in {text[k] : k \in 1..Len(text)} : c # ")" })
    IN IF /\ StartsWith(text, <<"!", "[">>)
          /\ Slice(text, 2 + alt, 4 + alt) = <<"]", "(">>
          /\ src >= 1
          /\ 4 + alt + src = Len(text) - 1
          /\ text[Len(text)] = ")"
       THEN [ok |-> TRUE, alt |-> Slice(text, 2, 2 + alt),
             src |-> Slice(text, 4 + alt, 4 + alt + src)]
       ELSE [ok |-> FALSE, alt |-> << >>, src |-> << >>]
imageWidgetDeco(doc, m, line, from) ==
    IF m.ok /\ (line.from = from \/ trim(Slice(doc, line.from, from)) = << >>)
    THEN <<widgetDeco(ImageWidget(m.src, m.alt), TRUE, line.from, line.to)>>
    ELSE << >>
imageDecos(doc, sel, node) ==
    IF isRangeSelected(sel, node.from, node.to) \/ Len(Slice(doc, node.from, node.to)) < 2
    THEN << >>
    ELSE imageWidgetDeco(doc, imageMatch(Slice(doc, node.from, node.to)),
                         lineAt(doc, node.from), node.from)

\* --- Horizontal rule ---
hrDecos(doc, sel, node) ==
    IF isRangeSelected(sel, node.from, node.to) THEN << >>
    ELSE <<widgetDeco(HrWidget, TRUE, lineAt(doc, node.from).from, lineAt(doc, node.from).to)>>

\* --- Fenced code ---
\* The grave accent cannot be written in a string of this language: the
\* model writes it as an apostrophe.
Backtick == "'"

\* The closing fence test of the last line: three or more fence characters,
\* then only white space.
isClosingFence(text) ==
    /\ runLength(text, 0, {Backtick, "~"}) >= 3
    /\ \A i \in (runLength(text, 0, {Backtick, "~"}) + 1)..Len(text) : isSpace(text[i])
\* The language of the opening fence: the non-space run after its backticks.
fenceLanguage(text) ==
    IF runLength(text, 0, {Backtick}) < 3 THEN << >>
    ELSE Slice(text, runLength(text, 0, {Backtick}),
               runLength(text, 0, {Backtick})
               + runLength(text, runLength(text, 0, {Backtick}),
                           { c \in {text[k] : k \in 1..Len(text)} : ~isSpace(c) }))
codeWidgetDeco(doc, firstLine, lastLine) ==
    IF ~isClosingFence(lineText(doc, lastLine)) THEN << >>
    ELSE <<widgetDeco(
              CodeBlockWidget(
                 IF firstLine.to + 1 <= (IF lastLine.from > 0 THEN lastLine.from - 1
                                         ELSE lastLine.from)
                 THEN Slice(doc, firstLine.to + 1, lastLine.from - 1) ELSE << >>,
                 fenceLanguage(lineText(doc, firstLine))),
              TRUE, firstLine.from, lastLine.to)>>
codeLineDecos(lines) == [i \in 1..Len(lines) |-> lineDeco("cm-code-block", lines[i].from)]
fencedCodeDecos(doc, sel, node) ==
    IF ~isRangeSelected(sel, node.from, node.to)
    THEN codeWidgetDeco(doc, lineAt(doc, node.from),
                        lineAt(doc, blockEnd(doc, node.from, node.to)))
    ELSE codeLineDecos(forEachBlockLine(doc, node.from, node.to))

\* --- Headings ---
HeadingNames == {"ATXHeading1", "ATXHeading2", "ATXHeading3", "ATXHeading4",
                 "ATXHeading5", "ATXHeading6"}
headingClass(name) ==
    CASE name = "ATXHeading1" -> "cm-heading-1"
      [] name = "ATXHeading2" -> "cm-heading-2"
      [] name = "ATXHeading3" -> "cm-heading-3"
      [] name = "ATXHeading4" -> "cm-heading-4"
      [] name = "ATXHeading5" -> "cm-heading-5"
      [] name = "ATXHeading6" -> "cm-heading-6"
\* lineText.match(/^(#{1,6})\s/): the length of the match, 0 for no match.
hashMatch(text) ==
    IF /\ runLength(text, 0, {"#"}) >= 1
       /\ runLength(text, 0, {"#"}) <= 6
       /\ runLength(text, 0, {"#"}) < Len(text)
       /\ isSpace(text[runLength(text, 0, {"#"}) + 1])
    THEN runLength(text, 0, {"#"}) + 1
    ELSE 0
headingHide(sel, node, line, matchLen) ==
    IF ~isRangeSelected(sel, node.from, node.to) /\ matchLen > 0
    THEN <<hiddenReplace(line.from, line.from + matchLen)>>
    ELSE << >>
headingDecos(doc, sel, node) ==
    <<lineDeco(headingClass(node.name), lineAt(doc, node.from).from)>>
    \o headingHide(sel, node, lineAt(doc, node.from),
                   hashMatch(lineText(doc, lineAt(doc, node.from))))

\* The two Hides over the delimiters of an inline node, unless it is selected.
delimiterHides(sel, node, cFrom, cTo) ==
    IF isRangeSelected(sel, node.from, node.to) THEN << >>
    ELSE <<hiddenReplace(node.from, cFrom), hiddenReplace(cTo, node.to)>>

\* --- StrongEmphasis / Emphasis ---
isTripleMarker(doc, node) ==
    StartsWith(Slice(doc, node.from, Min(node.from + 4, node.to)), <<"*", "*", "*">>)
strongMarkerLen(doc, node) == IF isTripleMarker(doc, node) THEN 3 ELSE 2
emMarkerLen(doc, node) == IF isTripleMarker(doc, node) THEN 3 ELSE 1
emphasisDecos(sel, node, markerLen, first, second) ==
    IF node.from + markerLen >= node.to - markerLen THEN << >>
    ELSE <<markDeco(first, << >>, node.from + markerLen, node.to - markerLen)>>
         \o (IF markerLen = 3
             THEN <<markDeco(second, << >>, node.from + markerLen, node.to - markerLen)>>
             ELSE << >>)
         \o delimiterHides(sel, node, node.from + markerLen, node.to - markerLen)

\* --- Strikethrough ---
strikethroughDecos(sel, node) ==
    IF node.from + 2 >= node.to - 2 THEN << >>
    ELSE <<markDeco("cm-strikethrough", << >>, node.from + 2, node.to - 2)>>
         \o delimiterHides(sel, node, node.from + 2, node.to - 2)

\* --- InlineCode ---
\* text.match(/^'+/)?.[0].length || 1 and text.match(/'+$/)?.[0].length || 1
codeOpenLen(text) == Max(1, runLength(text, 0, {Backtick}))
codeCloseLen(text) ==
    Max(1, CHOOSE n \in 0..Len(text) :
              /\ \A k \in 1..n : text[Len(text) - k + 1] = Backtick
              /\ (n = Len(text) \/ text[Len(text) - n] # Backtick))
inlineCodeDecos(sel, node, openLen, closeLen) ==
    IF node.from + openLen >= node.to - closeLen THEN << >>
    ELSE <<markDeco("cm-inline-code", << >>, node.from + openLen, node.to - closeLen)>>
         \o delimiterHides(sel, node, node.from + openLen, node.to - closeLen)

\* --- Links ---
linkDecos(sel, node, text, bracketClose) ==
    IF bracketClose <= 0 THEN << >>
    ELSE <<markDeco("cm-link", Slice(text, bracketClose + 2, Len(text) - 1),
                    node.from + 1, node.from + bracketClose)>>
         \o delimiterHides(sel, node, node.from + 1, node.from + bracketClose)

\* --- TaskMarker ---
taskMarkerDecos(doc, sel, node) ==
    IF isRangeSelected(sel, node.from, node.to) THEN << >>
    ELSE <<widgetDeco(CheckboxWidget(\E i \in (node.from + 1)..node.to : doc[i] = "x",
                                     node.from),
                      FALSE, node.from, node.to)>>

\* --- ListMark ---
\* /^\s*[-*+]\s+\[[ x]\]/
isTaskLine(text) ==
    LET s == runLength(text, 0, {" ", "\t"})
        w == runLength(text, s + 1, {" ", "\t"})
    IN /\ CharAt(text, s) \in {"-", "*", "+"}
       /\ w >= 1
       /\ CharAt(text, s + 1 + w) = "["
       /\ CharAt(text, s + 2 + w) \in {" ", "x"}
       /\ CharAt(text, s + 3 + w) = "]"
\* /^\d+\.$/
isOrderedMark(text) ==
    /\ Len(text) >= 2
    /\ text[Len(text)] = "."
    /\ \A i \in 1..(Len(text) - 1) : text[i] \in Digits
bulletDecos(doc, tree, node) ==
    IF isTaskLine(lineText(doc, lineAt(doc, node.from)))
    THEN <<hiddenReplace(node.from, node.from + 1)>>
    ELSE <<widgetDeco(BulletWidget(getListNestingDepth(tree, node.from)),
                      FALSE, node.from, node.from + 1)>>
orderedDecos(node, label) ==
    IF label = << >> THEN << >>
    ELSE <<widgetDeco(OrderedNumberWidget(label), FALSE, node.from, node.to)>>
listMarkDecos(doc, sel, tree, node, text) ==
    (IF text \in {<<"-">>, <<"*">>, <<"+">>} /\ ~isRangeSelected(sel, node.from, node.to)
     THEN bulletDecos(doc, tree, node) ELSE << >>)
    \o (IF isOrderedMark(text) /\ ~isRangeSelected(sel, node.from, node.to)
        THEN orderedDecos(node, computeOrderedListLabel(tree, node.from)) ELSE << >>)

\* --- Escape ---
escapeDecos(sel, node) ==
    IF isRangeSelected(sel, node.from, node.to) THEN << >>
    ELSE <<hiddenReplace(node.from, node.from + 1)>>

\* --- Blockquote ---
\* line.text.match(/^>\s?/): the length of the match, 0 for no match.
quoteMatch(text) ==
    IF ~StartsWith(text, <<">">>) THEN 0
    ELSE IF Len(text) >= 2 /\ isSpace(text[2]) THEN 2 ELSE 1
quoteLineDecos(doc, selected, line) ==
    <<lineDeco("cm-blockquote", line.from)>>
    \o (IF ~selected /\ quoteMatch(lineText(doc, line)) > 0
        THEN <<hiddenReplace(line.from, line.from + quoteMatch(lineText(doc, line)))>>
        ELSE << >>)
blockquoteLines(doc, selected, lines) ==
    flatten([i \in 1..Len(lines) |-> quoteLineDecos(doc, selected, lines[i])])
blockquoteDecos(doc, sel, node) ==
    blockquoteLines(doc, isRangeSelected(sel, node.from, node.to),
                    forEachBlockLine(doc, node.from, node.to))

\* The ranges the enter callback pushes for one node.
nodeDecos(doc, sel, fm, tree, node) ==
    IF fm.end > 0 /\ node.to <= fm.end THEN << >>
    ELSE CASE node.name = "Table" -> tableDecos(doc, sel, node)
           [] node.name = "Image" -> imageDecos(doc, sel, node)
           [] node.name = "HorizontalRule" -> hrDecos(doc, sel, node)
           [] node.name = "FencedCode" -> fencedCodeDecos(doc, sel, node)
           [] node.name \in HeadingNames -> headingDecos(doc, sel, node)
           [] node.name = "StrongEmphasis" ->
                emphasisDecos(sel, node, strongMarkerLen(doc, node),
                              "cm-strong", "cm-emphasis")
           [] node.name = "Emphasis" ->
                emphasisDecos(sel, node, emMarkerLen(doc, node),
                              "cm-emphasis", "cm-strong")
           [] node.name = "Strikethrough" -> strikethroughDecos(sel, node)
           [] node.name = "InlineCode" ->
                inlineCodeDecos(sel, node, codeOpenLen(Slice(doc, node.from, node.to)),
                                codeCloseLen(Slice(doc, node.from, node.to)))
           [] node.name = "Link" ->
                linkDecos(sel, node, Slice(doc, node.from, node.to),
                          IndexOf(Slice(doc, node.from, node.to), <<"]", "(">>, 0))
           [] node.name = "TaskMarker" -> taskMarkerDecos(doc, sel, node)
           [] node.name = "ListMark" ->
                listMarkDecos(doc, sel, tree, node, trim(Slice(doc, node.from, node.to)))
           [] node.name = "Escape" -> escapeDecos(sel, node)
           [] node.name = "Blockquote" -> blockquoteDecos(doc, sel, node)
           [] OTHER -> << >>

\* The enter callback returns false for the node: its children are skipped.
nodeSkipsChildren(doc, fm, node) ==
    \/ fm.end > 0 /\ node.to <= fm.end
    \/ node.name \in {"Table", "Image", "HorizontalRule", "FencedCode", "Strikethrough",
                      "InlineCode", "TaskMarker", "ListMark", "Escape",
                      "HTMLBlock", "HTMLTag"}
    \/ /\ node.name = "StrongEmphasis"
       /\ \/ node.from + strongMarkerLen(doc, node) >= node.to - strongMarkerLen(doc, node)
          \/ strongMarkerLen(doc, node) = 3
    \/ /\ node.name = "Emphasis"
       /\ \/ node.from + emMarkerLen(doc, node) >= node.to - emMarkerLen(doc, node)
          \/ isTripleMarker(doc, node)

\* tree.iterate enters node i: no ancestor of it returned false.
RECURSIVE nodeEntered(_, _, _, _)
nodeEntered(doc, fm, tree, i) ==
    \/ tree[i].parent = 0
    \/ /\ ~nodeSkipsChildren(doc, fm, tree[tree[i].parent])
       /\ nodeEntered(doc, fm, tree, tree[i].parent)

treeDecos(doc, sel, fm, tree) ==
    flatten([i \in 1..Len(tree) |->
                IF nodeEntered(doc, fm, tree, i)
                THEN nodeDecos(doc, sel, fm, tree, tree[i]) ELSE << >>])

\* buildDecorations(state), with state.doc, state.selection.ranges and
\* syntaxTree(state) as its arguments.
buildFrom(doc, sel, tree, fm) ==
    frontmatterDecos(doc, sel, fm) \o wikiDecos(doc, sel, fm) \o treeDecos(doc, sel, fm, tree)
buildDecorations(doc, sel, tree) == buildFrom(doc, sel, tree, detectFrontmatter(doc))

(***************************************************************************)
(* Documents with the syntax tree the markdown parser (lezer, GFM) gives   *)
(* for them: what syntaxTree(state) returns at decorations/index.ts.       *)
(***************************************************************************)
Corpus ==
    <<
      [doc |-> <<"#", " ", "H", NL, NL, "z">>,
       tree |->
       <<[name |-> "ATXHeading1", from |-> 0, to |-> 3, parent |-> 0],
         [name |-> "HeaderMark", from |-> 0, to |-> 1, parent |-> 1],
         [name |-> "Paragraph", from |-> 5, to |-> 6, parent |-> 0]>>],
      [doc |-> <<"*", "*", "b", "*", "*", " ", "*", "i", "*", NL, NL, "z">>,
       tree |->
       <<[name |-> "Paragraph", from |-> 0, to |-> 9, parent |-> 0],
         [name |-> "StrongEmphasis", from |-> 0, to |-> 5, parent |-> 1],
         [name |-> "EmphasisMark", from |-> 0, to |-> 2, parent |-> 2],
         [name |-> "EmphasisMark", from |-> 3, to |-> 5, parent |-> 2],
         [name |-> "Emphasis", from |-> 6, to |-> 9, parent |-> 1],
         [name |-> "EmphasisMark", from |-> 6, to |-> 7, parent |-> 5],
         [name |-> "EmphasisMark", from |-> 8, to |-> 9, parent |-> 5],
         [name |-> "Paragraph", from |-> 11, to |-> 12, parent |-> 0]>>],
      [doc |-> <<"~", "~", "s", "~", "~", " ", Backtick, "c", Backtick, NL, NL, "z">>,
       tree |->
       <<[name |-> "Paragraph", from |-> 0, to |-> 9, parent |-> 0],
         [name |-> "Strikethrough", from |-> 0, to |-> 5, parent |-> 1],
         [name |-> "StrikethroughMark", from |-> 0, to |-> 2, parent |-> 2],
         [name |-> "StrikethroughMark", from |-> 3, to |-> 5, parent |-> 2],
         [name |-> "InlineCode", from |-> 6, to |-> 9, parent |-> 1],
         [name |-> "CodeMark", from |-> 6, to |-> 7, parent |-> 5],
         [name |-> "CodeMark", from |-> 8, to |-> 9, parent |-> 5],
         [name |-> "Paragraph", from |-> 11, to |-> 12, parent |-> 0]>>],
      [doc |-> <<"[", "t", "]", "(", "u", ")", " ", "\\", "*", NL, NL, "z">>,
       tree |->
       <<[name |-> "Paragraph", from |-> 0, to |-> 9, parent |-> 0],
         [name |-> "Link", from |-> 0, to |-> 6, parent |-> 1],
         [name |-> "LinkMark", from |-> 0, to |-> 1, parent |-> 2],
         [name |-> "LinkMark", from |-> 2, to |-> 3, parent |-> 2],
         [name |-> "LinkMark", from |-> 3, to |-> 4, parent |-> 2],
         [name |-> "URL", from |-> 4, to |-> 5, parent |-> 2],
         [name |-> "LinkMark", from |-> 5, to |-> 6, parent |-> 2],
         [name |-> "Escape", from |-> 7, to |-> 9, parent |-> 1],
         [name |-> "Paragraph", from |-> 11, to |-> 12, parent |-> 0]>>],
      [doc |-> <<"[", "[", "w", "]", "]", " ", "[", "[", "p", "|", "a", "]", "]", NL, NL, "z">>,
       tree |->
       <<[name |-> "Paragraph", from |-> 0, to |-> 13, parent |-> 0],
         [name |-> "Link", from |-> 1, to |-> 4, parent |-> 1],
         [name |-> "LinkMark", from |-> 1, to |-> 2, parent |-> 2],
         [name |-> "LinkMark", from |-> 3, to |-> 4, parent |-> 2],
         [name |-> "Link", from |-> 7, to |-> 12, parent |-> 1],
         [name |-> "LinkMark", from |-> 7, to |-> 8, parent |-> 5],
         [name |-> "LinkMark", from |-> 11, to |-> 12, parent |-> 5],
         [name |-> "Paragraph", from |-> 15, to |-> 16, parent |-> 0]>>],
      [doc |-> <<">", " ", "q", NL, NL, "z">>,
       tree |->
       <<[name |-> "Blockquote", from |-> 0, to |-> 3, parent |-> 0],
         [name |-> "QuoteMark", from |-> 0, to |-> 1, parent |-> 1],
         [name |-> "Paragraph", from |-> 2, to |-> 3, parent |-> 1],
         [name |-> "Paragraph", from |-> 5, to |-> 6, parent |-> 0]>>],
      [doc |-> <<">", " ", "#", " ", "H", NL, NL, "z">>,
       tree |->
       <<[name |-> "Blockquote", from |-> 0, to |-> 5, parent |-> 0],
         [name |-> "QuoteMark", from |-> 0, to |-> 1, parent |-> 1],
         [name |-> "ATXHeading1", from |-> 2, to |-> 5, parent |-> 1],
         [name |-> "HeaderMark", from |-> 2, to |-> 3, parent |-> 3],
         [name |-> "Paragraph", from |-> 7, to |-> 8, parent |-> 0]>>],
      [doc |-> <<">", " ", "-", "-", "-", NL, NL, "z">>,
       tree |->
       <<[name |-> "Blockquote", from |-> 0, to |-> 5, parent |-> 0],
         [name |-> "QuoteMark", from |-> 0, to |-> 1, parent |-> 1],
         [name |-> "HorizontalRule", from |-> 2, to |-> 5, parent |-> 1],
         [name |-> "Paragraph", from |-> 7, to |-> 8, parent |-> 0]>>],
      [doc |-> <<"z", NL, NL, "-", "-", "-">>,
       tree |->
       <<[name |-> "Paragraph", from |-> 0, to |-> 1, parent |-> 0],
         [name |-> "HorizontalRule", from |-> 3, to |-> 6, parent |-> 0]>>],
      [doc |-> <<"!", "[", "a", "]", "(", "u", ")", NL, NL, "z">>,
       tree |->
       <<[name |-> "Paragraph", from |-> 0, to |-> 7, parent |-> 0],
         [name |-> "Image", from |-> 0, to |-> 7, parent |-> 1],
         [name |-> "LinkMark", from |-> 0, to |-> 2, parent |-> 2],
         [name |-> "LinkMark", from |-> 3, to |-> 4, parent |-> 2],
         [name |-> "LinkMark", from |-> 4, to |-> 5, parent |-> 2],
         [name |-> "URL", from |-> 5, to |-> 6, parent |-> 2],
         [name |-> "LinkMark", from |-> 6, to |-> 7, parent |-> 2],
         [name |-> "Paragraph", from |-> 9, to |-> 10, parent |-> 0]>>],
      [doc |-> <<"!", "[", "a", "]", "(", "u", ")", " ", "*", "*", "b", "*", "*", NL, NL, "z">>,
       tree |->
       <<[name |-> "Paragraph", from |-> 0, to |-> 13, parent |-> 0],
         [name |-> "Image", from |-> 0, to |-> 7, parent |-> 1],
         [name |-> "LinkMark", from |-> 0, to |-> 2, parent |-> 2],
         [name |-> "LinkMark", from |-> 3, to |-> 4, parent |-> 2],
         [name |-> "LinkMark", from |-> 4, to |-> 5, parent |-> 2],
         [name |-> "URL", from |-> 5, to |-> 6, parent |-> 2],
         [name |-> "LinkMark", from |-> 6, to |-> 7, parent |-> 2],
         [name |-> "StrongEmphasis", from |-> 8, to |-> 13, parent |-> 1],
         [name |-> "EmphasisMark", from |-> 8, to |-> 10, parent |-> 8],
         [name |-> "EmphasisMark", from |-> 11, to |-> 13, parent |-> 8],
         [name |-> "Paragraph", from |-> 15, to |-> 16, parent |-> 0]>>],
      [doc |-> <<Backtick, Backtick, Backtick, NL, "[", "[", "w", "]", "]", NL, Backtick, Backtick, Backtick, NL, NL, "z">>,
       tree |->
       <<[name |-> "FencedCode", from |-> 0, to |-> 13, parent |-> 0],
         [name |-> "CodeMark", from |-> 0, to |-> 3, parent |-> 1],
         [name |-> "CodeText", from |-> 4, to |-> 9, parent |-> 1],
         [name |-> "CodeMark", from |-> 10, to |-> 13, parent |-> 1],
         [name |-> "Paragraph", from |-> 15, to |-> 16, parent |-> 0]>>],
      [doc |-> <<"-", "-", "-", NL, "t", ":", " ", "1", NL, "-", "-", "-", NL, "z">>,
       tree |->
       <<[name |-> "HorizontalRule", from |-> 0, to |-> 3, parent |-> 0],
         [name |-> "SetextHeading2", from |-> 4, to |-> 12, parent |-> 0],
         [name |-> "HeaderMark", from |-> 9, to |-> 12, parent |-> 2],
         [name |-> "Paragraph", from |-> 13, to |-> 14, parent |-> 0]>>],
      [doc |-> <<"|", "a", "|", "b", "|", NL, "|", "-", "|", "-", "|", NL, "|", "c", "|", "d", "|", NL, NL, "z">>,
       tree |->
       <<[name |-> "Table", from |-> 0, to |-> 17, parent |-> 0],
         [name |-> "TableHeader", from |-> 0, to |-> 5, parent |-> 1],
         [name |-> "TableDelimiter", from |-> 6, to |-> 11, parent |-> 1],
         [name |-> "TableRow", from |-> 12, to |-> 17, parent |-> 1],
         [name |-> "Paragraph", from |-> 19, to |-> 20, parent |-> 0]>>],
      [doc |-> <<"|", "[", "[", "w", "]", "]", "|", "b", "|", NL, "|", "-", "|", "-", "|", NL, NL, "z">>,
       tree |->
       <<[name |-> "Table", from |-> 0, to |-> 15, parent |-> 0],
         [name |-> "TableHeader", from |-> 0, to |-> 9, parent |-> 1],
         [name |-> "TableCell", from |-> 1, to |-> 6, parent |-> 2],
         [name |-> "Link", from |-> 2, to |-> 5, parent |-> 3],
         [name |-> "LinkMark", from |-> 2, to |-> 3, parent |-> 4],
         [name |-> "LinkMark", from |-> 4, to |-> 5, parent |-> 4],
         [name |-> "TableCell", from |-> 7, to |-> 8, parent |-> 2],
         [name |-> "TableDelimiter", from |-> 10, to |-> 15, parent |-> 1],
         [name |-> "Paragraph", from |-> 17, to |-> 18, parent |-> 0]>>],
      [doc |-> <<"-", " ", "[", " ", "]", " ", "t", NL, "-", " ", "b">>,
       tree |->
       <<[name |-> "BulletList", from |-> 0, to |-> 11, parent |-> 0],
         [name |-> "ListItem", from |-> 0, to |-> 7, parent |-> 1],
         [name |-> "ListMark", from |-> 0, to |-> 1, parent |-> 2],
         [name |-> "Task", from |-> 2, to |-> 7, parent |-> 2],
         [name |-> "TaskMarker", from |-> 2, to |-> 5, parent |-> 4],
         [name |-> "ListItem", from |-> 8, to |-> 11, parent |-> 1],
         [name |-> "ListMark", from |-> 8, to |-> 9, parent |-> 6],
         [name |-> "Paragraph", from |-> 10, to |-> 11, parent |-> 6]>>],
      [doc |-> <<"1", ".", " ", "a", NL, "2", ".", " ", "b">>,
       tree |->
       <<[name |-> "OrderedList", from |-> 0, to |-> 9, parent |-> 0],
         [name |-> "ListItem", from |-> 0, to |-> 4, parent |-> 1],
         [name |-> "ListMark", from |-> 0, to |-> 2, parent |-> 2],
         [name |-> "Paragraph", from |-> 3, to |-> 4, parent |-> 2],
         [name |-> "ListItem", from |-> 5, to |-> 9, parent |-> 1],
         [name |-> "ListMark", from |-> 5, to |-> 7, parent |-> 5],
         [name |-> "Paragraph", from |-> 8, to |-> 9, parent |-> 5]>>],
      [doc |-> <<"<", "b", ">", "h", "<", "/", "b", ">">>,
       tree |->
       <<[name |-> "Paragraph", from |-> 0, to |-> 8, parent |-> 0],
         [name |-> "HTMLTag", from |-> 0, to |-> 3, parent |-> 1],
         [name |-> "HTMLTag", from |-> 4, to |-> 8, parent |-> 1]>>],
      [doc |-> <<"#", " ", "*", "*", "b", "*", "*", NL, NL, "z">>,
       tree |->
       <<[name |-> "ATXHeading1", from |-> 0, to |-> 7, parent |-> 0],
         [name |-> "HeaderMark", from |-> 0, to |-> 1, parent |-> 1],
         [name |-> "StrongEmphasis", from |-> 2, to |-> 7, parent |-> 1],
         [name |-> "EmphasisMark", from |-> 2, to |-> 4, parent |-> 3],
         [name |-> "EmphasisMark", from |-> 5, to |-> 7, parent |-> 3],
         [name |-> "Paragraph", from |-> 9, to |-> 10, parent |-> 0]>>],
      [doc |-> <<"*", "*", "*", "t", "*", "*", "*", NL, NL, "z">>,
       tree |->
       <<[name |-> "Paragraph", from |-> 0, to |-> 7, parent |-> 0],
         [name |-> "Emphasis", from |-> 0, to |-> 7, parent |-> 1],
         [name |-> "EmphasisMark", from |-> 0, to |-> 1, parent |-> 2],
         [name |-> "StrongEmphasis", from |-> 1, to |-> 6, parent |-> 2],
         [name |-> "EmphasisMark", from |-> 1, to |-> 3, parent |-> 4],
         [name |-> "EmphasisMark", from |-> 4, to |-> 6, parent |-> 4],
         [name |-> "EmphasisMark", from |-> 6, to |-> 7, parent |-> 2],
         [name |-> "Paragraph", from |-> 9, to |-> 10, parent |-> 0]>>]
    >>


(***************************************************************************)
(* The formatting engine applied twice in a row (the toggle scenario of    *)
(* test/formatting-regression: the second application takes the text and   *)
(* the selection the first one returned).                                  *)
(***************************************************************************)
\* The characters of the input texts, by the marker the command toggles.
FormatAlphabet(command, preferences) ==
    CASE command = "bold" -> {"a", " ", "*"}
      [] command = "italic" ->
            IF preferences.italicDelimiter = "underscore"
            THEN {"a", " ", "_"} ELSE {"a", " ", "*"}
      [] command = "strikethrough" -> {"a", " ", "~"}
      [] command = "link" -> {"a", "[", "]"}

NoOptions == [linkUrl |-> NoUrl]

\* The editor is not part of the scenario.
NoCell == [view |-> 0, row |-> 0, col |-> 0]

(***************************************************************************)
(* The synchronisation of edits: two webview panels, each with its own     *)
(* sync module, the provider of the extension host, and the documents.     *)
(* The text of a document is one of a few contents.                        *)
(***************************************************************************)
Panels == 1..NumPanels
Documents == {"A", "B"}
Contents == {"s", "x"}
InitialContent == "s"
NoContent == "null"

\* setTimeout gives a handle that no pending timeout and no field holds.
freshHandle(used) == CHOOSE i \in 1..(Cardinality(used) + 1) : i \notin used
handles(timeouts) == {t.id : t \in timeouts}

\* clearTimeout that leaves the timeout pending.
clearTimeoutKeeps(timeouts, handle) == timeouts

clearTimeout(timeouts, handle) == {t \in timeouts : t.id # handle}

\* A webview once its editor has been created with the document's text.
webviewAt(content) ==
    [content |-> content,   \* editorView.state.doc
     focused |-> FALSE,     \* the focus is inside view.dom
     editTimer |-> 0,       \* sync.ts editTimer (0: null)
     timeouts |-> {},       \* its pending timeouts
     toHost |-> << >>,      \* Edit messages posted, not yet received by the host
     fromHost |-> << >>]    \* Update messages posted by the host, not yet received

\* Both panels resolved and initialised, panel p on document panelDocument[p].
SyncStart(panelDocument) ==
    /\ workspace = [panelDocument |-> panelDocument,
                    text |-> [d \in Documents |-> InitialContent],
                    applying |-> << >>,
                    timeouts |-> {},
                    external |-> 0]
    /\ provider = [focusedWebviews |-> [p \in Panels |-> FALSE],
                   updateTimers |-> [p \in Panels |-> 0],
                   editTimer |-> 0,
                   pendingEdit |-> NoContent,
                   isApplyingEdit |-> FALSE]
    /\ webviews = [p \in Panels |-> webviewAt(InitialContent)]

SyncIdle == SyncStart([p \in Panels |-> "A"])

\* No message is on its way.
LinkIdle == toHost = 0 /\ toView = << >> /\ SyncIdle

\* No syntax tree, overlays or widgets are modelled.
UiIdle ==
    /\ viewTree = << >>
    /\ decos = << >>
    /\ tables = << >>
    /\ activeCell = NoCell
    /\ timers = << >>
    /\ inputs = 0

EditorIdle ==
    /\ viewDoc = << >>
    /\ viewSel = [ranges |-> <<[from |-> 0, to |-> 0]>>, main |-> 0]
    /\ prefs = [emptySelectionBehavior |-> "word", italicDelimiter |-> "underscore"]
    /\ ev = [type |-> "init"]
    /\ UiIdle

FormatInit ==
    /\ EditorIdle
    /\ LinkIdle
    /\ fCmd \in MarkerCommands
    /\ fPrefs \in Preferences
    /\ fCmd # "italic" => fPrefs.italicDelimiter = "underscore"
    /\ fText \in SeqsUpTo(FormatAlphabet(fCmd, fPrefs), MaxLen)
    /\ fSel \in [from : 0..Len(fText), to : 0..Len(fText)]
    /\ fSel.from <= fSel.to
    /\ fStage = 0
    /\ fRes1 = NoResult
    /\ fOpts = NoOptions
    /\ fSel2 = NoSelection
    /\ fRes2 = NoResult

\* The command applied to the input text and selection.
FormatFirst ==
    /\ fStage = 0
    /\ fRes1' = applyCommandToText(fText, fSel, fCmd, fPrefs, fOpts)
    /\ fStage' = 1
    /\ UNCHANGED <<fText, fSel, fCmd, fPrefs, fOpts, fSel2, fRes2>>
    /\ UNCHANGED edVars

\* The same command applied to the returned text with the returned selection.
FormatSecond ==
    /\ fStage = 1
    /\ fSel2' = fRes1.selection
    /\ fRes2' = applyCommandToText(fRes1.text, fSel2', fCmd, fPrefs, fOpts)
    /\ fStage' = 2
    /\ UNCHANGED <<fText, fSel, fCmd, fPrefs, fOpts, fRes1>>
    /\ UNCHANGED edVars

FormatNext == FormatFirst \/ FormatSecond

SpecFormat == FormatInit /\ [][FormatNext]_vars

(***************************************************************************)
(* The formatting engine on any input: applyCommandToText with each of the *)
(* four commands, a selection that may lie outside the text or be          *)
(* reversed, and with or without a link url; after bold has wrapped a      *)
(* range, bold again with a range inside the wrapped span.                 *)
(***************************************************************************)
\* The url a link command carries.
LinkUrl == <<"u">>

\* The texts of the link scenarios are made of these pieces.
LinkPieces == {<<"a">>, <<"[">>, <<"]", "(", "u">>, <<")">>}
RECURSIVE PiecesUpTo(_)
PiecesUpTo(n) ==
    IF n = 0 THEN {<< >>}
    ELSE PiecesUpTo(n - 1) \cup {t \o p : t \in PiecesUpTo(n - 1), p \in LinkPieces}

\* test/formatting-regression, case 2.
WordExample ==
    <<"A", " ", "p", "a", "r", "a", "g", "r", "a", "p", "h", " ",
      "w", "i", "t", "h", " ", "t", "e", "x", "t">>
WordExampleResult ==
    <<"A", " ", "_", "p", "a", "r", "a", "g", "r", "a", "p", "h", "_", " ",
      "w", "i", "t", "h", " ", "t", "e", "x", "t">>

\* Texts in which the one-character italic marker stands doubled next to a
\* letter.
DoubledExamples ==
    { <<"*", "*", "a", "*", "*">>, <<"*", "*", "a", "*">>, <<"*", "a", "*", "*">> }

EngineTexts(command, preferences) ==
    IF command = "link" THEN PiecesUpTo(EngMaxPieces)
    ELSE SeqsUpTo(FormatAlphabet(command, preferences), EngMaxLen)

EngineInit ==
    /\ EditorIdle
    /\ LinkIdle
    /\ fCmd \in Commands
    /\ fPrefs \in Preferences
    /\ fCmd # "italic" => fPrefs.italicDelimiter = "underscore"
    /\ fOpts \in {NoOptions, [linkUrl |-> LinkUrl]}
    /\ fCmd # "link" => fOpts = NoOptions
    /\ \/ /\ fText \in EngineTexts(fCmd, fPrefs)
          /\ fSel \in [from : (-1)..(Len(fText) + 1), to : (-1)..(Len(fText) + 1)]
       \/ /\ fCmd = "italic"
          /\ fText = WordExample
          /\ fSel \in {[from |-> p, to |-> p] : p \in 0..Len(fText)}
       \/ /\ fCmd = "italic"
          /\ fPrefs.italicDelimiter = "asterisk"
          /\ fText \in DoubledExamples
          /\ fSel \in [from : 0..Len(fText), to : 0..Len(fText)]
    /\ fStage = 0
    /\ fRes1 = NoResult
    /\ fSel2 = NoSelection
    /\ fRes2 = NoResult

\* applyCommandToText(text, selection, command, preferences, options)
EngineApply ==
    /\ fStage = 0
    /\ fRes1' = applyCommandToText(fText, fSel, fCmd, fPrefs, fOpts)
    /\ fStage' = 1
    /\ UNCHANGED <<fText, fSel, fCmd, fPrefs, fOpts, fSel2, fRes2>>
    /\ UNCHANGED edVars

\* The first application has wrapped a non-empty range in the marker.
Wrapped(result, marker) ==
    /\ result.change.from < result.change.to
    /\ Len(result.change.insert)
         = (result.change.to - result.change.from) + 2 * Len(marker)
\* The span the wrapped range and its two markers occupy in the new text.
WrappedSpan(result) ==
    [from |-> result.change.from,
     to |-> result.change.from + Len(result.change.insert)]

\* bold once more, on the text the first bold returned, with range r.
EngineAgain(r) ==
    /\ fStage = 1
    /\ fCmd = "bold"
    /\ Wrapped(fRes1, <<"*", "*">>)
    /\ WrappedSpan(fRes1).from <= r.from
    /\ r.from <= r.to
    /\ r.to <= WrappedSpan(fRes1).to
    /\ fSel2' = r
    /\ fRes2' = applyCommandToText(fRes1.text, r, fCmd, fPrefs, fOpts)
    /\ fStage' = 2
    /\ UNCHANGED <<fText, fSel, fCmd, fPrefs, fOpts, fRes1>>
    /\ UNCHANGED edVars

EngineNext ==
    \/ EngineApply
    \/ \E from \in 0..(EngMaxLen + 4), to \in 0..(EngMaxLen + 4) :
          EngineAgain([from |-> from, to |-> to])

SpecEngine == EngineInit /\ [][EngineNext]_vars

(***************************************************************************)
(* The multi-range orchestrator run on an editor state: a format command   *)
(* reaches applyFormattingToEditor with the document and the selection set *)
(* the user has made.                                                      *)
(***************************************************************************)
\* The formatting harness is not part of the scenario.
FormatIdle ==
    /\ fText = << >>
    /\ fSel = [from |-> 0, to |-> 0]
    /\ fCmd = "bold"
    /\ fPrefs = [emptySelectionBehavior |-> "word", italicDelimiter |-> "underscore"]
    /\ fStage = 0
    /\ fRes1 = NoResult
    /\ fOpts = NoOptions
    /\ fSel2 = NoSelection
    /\ fRes2 = NoResult

\* The selection sets an editor state can hold over a document of length n:
\* EditorSelection keeps its ranges sorted and not overlapping.
IsNormalSelection(ranges) ==
    \A i \in 2..Len(ranges) :
        IF ranges[i].from = ranges[i].to
        THEN ranges[i].from > ranges[i - 1].to
        ELSE ranges[i].from >= ranges[i - 1].to

RangesOf(n) == { r \in [from : 0..n, to : 0..n] : r.from <= r.to }

SelectionsUpTo(n, maxRanges) ==
    UNION { { [ranges |-> rs, main |-> m] :
                rs \in { q \in [1..k -> RangesOf(n)] : IsNormalSelection(q) },
                m \in 0..(k - 1) } : k \in 1..maxRanges }
SelectionsOf(n) == SelectionsUpTo(n, MaxRanges)

OrchAlphabet == {"a", "*"}

OrchInit ==
    /\ FormatIdle
    /\ LinkIdle
    /\ viewDoc \in SeqsUpTo(OrchAlphabet, OrchMaxLen)
    /\ viewSel \in SelectionsOf(Len(viewDoc))
    /\ prefs \in Preferences
    /\ ev = [type |-> "init"]
    /\ UiIdle

\* The editor after a run of applyFormattingToEditor.
OrchRan(command, run) ==
    /\ viewDoc' = run.doc
    /\ viewSel' = run.selection
    /\ ev' = [type |-> "format", command |-> command, doc |-> viewDoc,
              selection |-> viewSel, returned |-> run.returned,
              threw |-> run.threw, local |-> run.local]

\* executeFormattingCommand with no table cell active: the command goes to
\* applyFormattingToEditor (a link command comes with the url the host sent).
OrchCommand(command) ==
    /\ Len(viewDoc) <= OrchMaxLen
    /\ OrchRan(command,
               applyFormattingToEditor(viewDoc, viewSel, command, prefs,
                    [linkUrl |-> IF command = "link" THEN LinkUrl ELSE NoUrl]))
    /\ UNCHANGED <<prefs, fmtVars, uiVars, linkVars>>

OrchNext == \E command \in Commands : OrchCommand(command)

SpecOrch == OrchInit /\ [][OrchNext]_vars

(***************************************************************************)
(* The decoration builder over the corpus: the editor holds one of the    *)
(* documents, and the selection moves (a transaction that sets the         *)
(* selection makes decorationField rebuild).                              *)
(***************************************************************************)
DecoInit ==
    /\ FormatIdle
    /\ LinkIdle
    /\ \E c \in 1..Len(Corpus) :
          /\ viewDoc = Corpus[c].doc
          /\ viewTree = Corpus[c].tree
    /\ viewSel \in SelectionsUpTo(Len(viewDoc), DecoMaxRanges)
    /\ decos = buildDecorations(viewDoc, viewSel.ranges, viewTree)
    /\ prefs = [emptySelectionBehavior |-> "word", italicDelimiter |-> "underscore"]
    /\ ev = [type |-> "init"]
    /\ tables = << >>
    /\ activeCell = NoCell
    /\ timers = << >>
    /\ inputs = 0

\* The caret is put at pos: decorationField.update rebuilds.
DecoSelect(pos) ==
    /\ viewSel' = [ranges |-> <<[from |-> pos, to |-> pos]>>, main |-> 0]
    /\ decos' = buildDecorations(viewDoc, viewSel'.ranges, viewTree)
    /\ ev' = [type |-> "select"]
    /\ UNCHANGED <<viewDoc, viewTree, prefs, tables, activeCell, timers, inputs, fmtVars,
                   linkVars>>

DecoNext == \E pos \in 0..Len(viewDoc) : DecoSelect(pos)

SpecDeco == DecoInit /\ [][DecoNext]_vars

(***************************************************************************)
(* The decoration builder over fenced code blocks, closed and not: the     *)
(* parser ends a block without a closing fence at the end of the document. *)
(* A closing fence repeats the character of the opening fence, at least as *)
(* many times.                                                             *)
(***************************************************************************)
FenceCorpus ==
    <<
      [doc |-> <<Backtick, Backtick, Backtick, NL, "c", NL, Backtick, Backtick, Backtick, NL, NL, "z">>,
       tree |->
       <<[name |-> "FencedCode", from |-> 0, to |-> 9, parent |-> 0],
         [name |-> "CodeMark", from |-> 0, to |-> 3, parent |-> 1],
         [name |-> "CodeText", from |-> 4, to |-> 5, parent |-> 1],
         [name |-> "CodeMark", from |-> 6, to |-> 9, parent |-> 1],
         [name |-> "Paragraph", from |-> 11, to |-> 12, parent |-> 0]>>],
      [doc |-> <<"~", "~", "~", NL, "c", NL, "~", "~", "~", NL, NL, "z">>,
       tree |->
       <<[name |-> "FencedCode", from |-> 0, to |-> 9, parent |-> 0],
         [name |-> "CodeMark", from |-> 0, to |-> 3, parent |-> 1],
         [name |-> "CodeText", from |-> 4, to |-> 5, parent |-> 1],
         [name |-> "CodeMark", from |-> 6, to |-> 9, parent |-> 1],
         [name |-> "Paragraph", from |-> 11, to |-> 12, parent |-> 0]>>],
      [doc |-> <<"z", NL, NL, Backtick, Backtick, Backtick>>,
       tree |->
       <<[name |-> "Paragraph", from |-> 0, to |-> 1, parent |-> 0],
         [name |-> "FencedCode", from |-> 3, to |-> 6, parent |-> 0],
         [name |-> "CodeMark", from |-> 3, to |-> 6, parent |-> 2]>>],
      [doc |-> <<"z", NL, NL, Backtick, Backtick, Backtick, NL, "c">>,
       tree |->
       <<[name |-> "Paragraph", from |-> 0, to |-> 1, parent |-> 0],
         [name |-> "FencedCode", from |-> 3, to |-> 8, parent |-> 0],
         [name |-> "CodeMark", from |-> 3, to |-> 6, parent |-> 2],
         [name |-> "CodeText", from |-> 7, to |-> 8, parent |-> 2]>>],
      [doc |-> <<"z", NL, NL, Backtick, Backtick, Backtick, NL, "~", "~", "~">>,
       tree |->
       <<[name |-> "Paragraph", from |-> 0, to |-> 1, parent |-> 0],
         [name |-> "FencedCode", from |-> 3, to |-> 10, parent |-> 0],
         [name |-> "CodeMark", from |-> 3, to |-> 6, parent |-> 2],
         [name |-> "CodeText", from |-> 7, to |-> 10, parent |-> 2]>>],
      [doc |-> <<"z", NL, NL, Backtick, Backtick, Backtick, Backtick, NL, Backtick, Backtick, Backtick>>,
       tree |->
       <<[name |-> "Paragraph", from |-> 0, to |-> 1, parent |-> 0],
         [name |-> "FencedCode", from |-> 3, to |-> 11, parent |-> 0],
         [name |-> "CodeMark", from |-> 3, to |-> 7, parent |-> 2],
         [name |-> "CodeText", from |-> 8, to |-> 11, parent |-> 2]>>]
    >>

FenceInit ==
    /\ FormatIdle
    /\ LinkIdle
    /\ \E c \in 1..Len(FenceCorpus) :
          /\ viewDoc = FenceCorpus[c].doc
          /\ viewTree = FenceCorpus[c].tree
    /\ viewSel \in SelectionsUpTo(Len(viewDoc), FenceMaxRanges)
    /\ decos = buildDecorations(viewDoc, viewSel.ranges, viewTree)
    /\ prefs = [emptySelectionBehavior |-> "word", italicDelimiter |-> "underscore"]
    /\ ev = [type |-> "init"]
    /\ tables = << >>
    /\ activeCell = NoCell
    /\ timers = << >>
    /\ inputs = 0

FenceNext == \E pos \in 0..Len(viewDoc) : DecoSelect(pos)

SpecFence == FenceInit /\ [][FenceNext]_vars

(***************************************************************************)
(* parseTableText on its own: the text of a table block of two columns     *)
(* with one data line, on which any number of cells is written.            *)
(***************************************************************************)
TableHead == <<"|", "a", "|", "b", "|", NL, "|", "-", "|", "-", "|", NL>>
\* The data lines: not blank, so that they are lines of the table block.
TableDataLines ==
    { line \in SeqsUpTo({"|", "c", " "}, TableMaxLine) : trim(line) # << >> }

TableInit ==
    /\ FormatIdle
    /\ LinkIdle
    /\ UiIdle
    /\ viewDoc = << >>
    /\ viewSel = [ranges |-> <<[from |-> 0, to |-> 0]>>, main |-> 0]
    /\ prefs = [emptySelectionBehavior |-> "word", italicDelimiter |-> "underscore"]
    /\ \E line \in TableDataLines : ev = [type |-> "tableText", text |-> TableHead \o line]

\* parseTableText(text), as buildDecorations calls it for a Table node.
TableParse ==
    /\ ev.type = "tableText"
    /\ ev' = [type |-> "tableModel", text |-> ev.text, model |-> parseTableText(ev.text)]
    /\ UNCHANGED <<viewDoc, viewSel, prefs, fmtVars, uiVars, linkVars>>

TableNext == TableParse

SpecTable == TableInit /\ [][TableNext]_vars

(***************************************************************************)
(* isRangeSelected on its own: a selection of one or two ranges, each with *)
(* its anchor and its head (the caret), and a node range.                  *)
(***************************************************************************)
\* SelectionRange: from and to of a range with the given anchor and head.
selectionRange(anchor, head) ==
    [from |-> Min(anchor, head), to |-> Max(anchor, head), anchor |-> anchor, head |-> head]
SelectionRanges ==
    { selectionRange(anchor, head) : anchor \in 0..OverlapMaxPos, head \in 0..OverlapMaxPos }
\* The selections EditorSelection.create keeps as they are: sorted ranges
\* apart from each other.
OverlapSelections ==
    { <<r>> : r \in SelectionRanges }
        \cup { pair \in { <<r, q>> : r \in SelectionRanges, q \in SelectionRanges } :
                   pair[2].from > pair[1].to }
\* What isRangeSelected reads of a range.
fromTo(ranges) == [i \in 1..Len(ranges) |-> [from |-> ranges[i].from, to |-> ranges[i].to]]

OverlapInit ==
    /\ FormatIdle
    /\ LinkIdle
    /\ UiIdle
    /\ viewDoc = << >>
    /\ prefs = [emptySelectionBehavior |-> "word", italicDelimiter |-> "underscore"]
    /\ \E ranges \in OverlapSelections, from \in 0..OverlapMaxPos, to \in 0..OverlapMaxPos :
          /\ from < to
          /\ viewSel = [ranges |-> fromTo(ranges), main |-> 0]
          /\ ev = [type |-> "selection", ranges |-> ranges, from |-> from, to |-> to]

\* isRangeSelected(view.state.selection.ranges, from, to)
OverlapCheck ==
    /\ ev.type = "selection"
    /\ ev' = [type |-> "overlap", ranges |-> ev.ranges, from |-> ev.from, to |-> ev.to,
              selected |-> isRangeSelected(viewSel.ranges, ev.from, ev.to)]
    /\ UNCHANGED <<viewDoc, viewSel, prefs, fmtVars, uiVars, linkVars>>

OverlapNext == OverlapCheck

SpecOverlap == OverlapInit /\ [][OverlapNext]_vars

(***************************************************************************)
(* The syntax tree of the documents the editor goes through: paragraphs,   *)
(* GFM tables and bullet / task list items, block by block as the markdown *)
(* parser (lezer, GFM) behind syntaxTree(state) reads them.                *)
(***************************************************************************)
isBlankLine(text) == trim(text) = << >>
isListLine(text) == StartsWith(text, <<"-", " ">>)
isTextLine(text) == ~isBlankLine(text) /\ ~isListLine(text)
\* A task item: "- [ ] " or "- [x] " and then text.
isTaskItem(text) ==
    /\ Len(text) >= 6
    /\ text[3] = "[" /\ text[4] \in {" ", "x"} /\ text[5] = "]" /\ text[6] = " "
\* The delimiter row of a table: cells of dashes with optional colons.
isDelimiterRow(cells) == \A i \in 1..Len(cells) : isAlignCell(cells[i])
isDelimiterLine(text) ==
    /\ \E i \in 1..Len(text) : text[i] = "-"
    /\ isDelimiterRow(parseTableRow(text))
hasPipe(text) == \E i \in 1..Len(text) : text[i] = "|"
\* The lines of the document, each [from, to], in order.
RECURSIVE linesFrom(_, _)
linesFrom(doc, pos) ==
    IF pos > Len(doc) THEN << >>
    ELSE <<[from |-> pos, to |-> lineToAt(doc, pos)]>>
         \o linesFrom(doc, lineToAt(doc, pos) + 1)
allLines(doc) ==
    IF doc = << >> \/ doc[Len(doc)] = NL
    THEN linesFrom(doc, 0) \o <<[from |-> Len(doc), to |-> Len(doc)]>>
    ELSE linesFrom(doc, 0)
\* kinds[k] is "blank", "list" or "text" for line k.
lineKind(text) ==
    IF isBlankLine(text) THEN "blank" ELSE IF isListLine(text) THEN "list" ELSE "text"
\* The last line of the run of lines of one kind that starts at line k.
RECURSIVE runEnd(_, _)
runEnd(kinds, k) ==
    IF k < Len(kinds) /\ kinds[k + 1] = kinds[k] THEN runEnd(kinds, k + 1) ELSE k
tableStartsAt(doc, lines, k, e) ==
    /\ k < e
    /\ hasPipe(lineText(doc, lines[k]))
    /\ isDelimiterLine(lineText(doc, lines[k + 1]))
    /\ Len(parseTableRow(lineText(doc, lines[k])))
         = Len(parseTableRow(lineText(doc, lines[k + 1])))
treeNode(name, from, to, parent) ==
    [name |-> name, from |-> from, to |-> to, parent |-> parent]
tableRowName(i) == IF i = 0 THEN "TableHeader" ELSE IF i = 1 THEN "TableDelimiter"
                   ELSE "TableRow"
\* Table with one child per line.
tableNodes(lines, k, e, base) ==
    <<treeNode("Table", lines[k].from, lines[e].to, 0)>>
    \o [i \in 1..(e - k + 1) |->
            treeNode(tableRowName(i - 1), lines[k + i - 1].from, lines[k + i - 1].to,
                     base + 1)]
\* ListItem with its ListMark and a Task / TaskMarker or a Paragraph.
listItemNodes(line, text, list, base) ==
    <<treeNode("ListItem", line.from, line.to, list),
      treeNode("ListMark", line.from, line.from + 1, base + 1)>>
    \o (IF isTaskItem(text)
        THEN <<treeNode("Task", line.from + 2, line.to, base + 1),
               treeNode("TaskMarker", line.from + 2, line.from + 5, base + 3)>>
        ELSE IF line.from + 2 < line.to
        THEN <<treeNode("Paragraph", line.from + 2, line.to, base + 1)>>
        ELSE << >>)
RECURSIVE listItems(_, _, _, _, _, _)
listItems(doc, lines, k, e, list, acc) ==
    IF k > e THEN acc
    ELSE listItems(doc, lines, k + 1, e, list,
                   acc \o listItemNodes(lines[k], lineText(doc, lines[k]), list, Len(acc)))
\* The nodes of the block of lines k..e.
blockNodes(doc, lines, kinds, k, e, acc) ==
    IF kinds[k] = "list"
    THEN listItems(doc, lines, k, e, Len(acc) + 1,
                   acc \o <<treeNode("BulletList", lines[k].from, lines[e].to, 0)>>)
    ELSE IF tableStartsAt(doc, lines, k, e)
    THEN acc \o tableNodes(lines, k, e, Len(acc))
    ELSE acc \o <<treeNode("Paragraph", lines[k].from, lines[e].to, 0)>>
RECURSIVE parseBlocks(_, _, _, _, _)
parseBlocks(doc, lines, kinds, k, acc) ==
    IF k > Len(lines) THEN acc
    ELSE IF kinds[k] = "blank" THEN parseBlocks(doc, lines, kinds, k + 1, acc)
    ELSE parseBlocks(doc, lines, kinds, runEnd(kinds, k) + 1,
                     blockNodes(doc, lines, kinds, k, runEnd(kinds, k), acc))
lineKinds(doc, lines) ==
    [k \in 1..Len(lines) |-> lineKind(lineText(doc, lines[k]))] \o << >>
parseLines(doc, lines) == parseBlocks(doc, lines, lineKinds(doc, lines), 1, << >>)
\* syntaxTree(state) of a state whose document is doc.
syntaxTree(doc) == parseLines(doc, allLines(doc))

(***************************************************************************)
(* DecorationSet.map(changes): RangeSet.map over the one chunk that holds  *)
(* the decorations, with the sides of each kind of decoration.             *)
(***************************************************************************)
\* ChangeDesc.touchesRange(from, to): FALSE, TRUE or "cover".
RECURSIVE touchesLoop(_, _, _, _, _)
touchesLoop(set, i, pos, from, to) ==
    IF i > Len(set) \/ pos > to THEN "false"
    ELSE IF set[i].ins >= 0 /\ pos <= to /\ pos + set[i].len >= from
    THEN IF pos < from /\ pos + set[i].len > to THEN "cover" ELSE "true"
    ELSE touchesLoop(set, i + 1, pos + set[i].len, from, to)
touchesRange(set, from, to) == touchesLoop(set, 1, 0, from, to)

\* ChangeDesc.mapPos(pos, assoc, MapMode.TrackBefore): -1 stands for null.
RECURSIVE mapPosBeforeLoop(_, _, _, _, _, _)
mapPosBeforeLoop(set, i, posA, posB, pos, assoc) ==
    IF i > Len(set) THEN posB
    ELSE LET len == set[i].len
             ins == set[i].ins
             endA == posA + len
         IN IF ins < 0
            THEN IF endA > pos THEN posB + (pos - posA)
                 ELSE mapPosBeforeLoop(set, i + 1, endA, posB + len, pos, assoc)
            ELSE IF endA >= pos /\ posA < pos THEN -1
            ELSE IF endA > pos \/ (endA = pos /\ assoc < 0 /\ len = 0)
                 THEN IF pos = posA \/ assoc < 0 THEN posB ELSE posB + ins
                 ELSE mapPosBeforeLoop(set, i + 1, endA, posB + ins, pos, assoc)
mapPosTrackBefore(set, pos, assoc) == mapPosBeforeLoop(set, 1, 0, 0, pos, assoc)

Dropped == [type |-> "dropped"]
\* Chunk.map for one range: the decoration at its new place, or Dropped.
\* A line decoration is a point (side Line, TrackBefore); a block replace
\* includes both ends (startSide < 0 < endSide); a mark and an inline
\* replace include neither (startSide > 0 > endSide).
mapPoint(d, pos) == IF pos < 0 THEN Dropped ELSE [d EXCEPT !.from = pos, !.to = pos]
mapSpan(d, newFrom, newTo) ==
    IF newFrom > newTo \/ (newFrom = newTo /\ ~d.block) THEN Dropped
    ELSE [d EXCEPT !.from = newFrom, !.to = newTo]
mapDeco(d, changes) ==
    IF d.type = "line" THEN mapPoint(d, mapPosTrackBefore(changes, d.from, -1))
    ELSE IF d.block THEN mapSpan(d, mapPos(changes, d.from, -1), mapPos(changes, d.to, 1))
    ELSE mapSpan(d, mapPos(changes, d.from, 1), mapPos(changes, d.to, -1))
mapAll(value, changes) ==
    SelectSeq([i \in 1..Len(value) |-> mapDeco(value[i], changes)],
              LAMBDA d : d # Dropped)
chunkFrom(value) ==
    CHOOSE p \in {value[i].from : i \in 1..Len(value)} :
        \A i \in 1..Len(value) : p <= value[i].from
chunkTo(value) ==
    CHOOSE p \in {value[i].to : i \in 1..Len(value)} :
        \A i \in 1..Len(value) : p >= value[i].to
mapDecorations(value, changes) ==
    IF csEmpty(changes) \/ value = << >> THEN value
    ELSE IF touchesRange(changes, chunkFrom(value), chunkTo(value)) = "cover" THEN << >>
    ELSE mapAll(value, changes)

\* decorationField.update that rebuilds whatever the transaction carries.
decorationFieldRebuild(value, tagged, changes, doc, sel, tree) ==
    buildDecorations(doc, sel, tree)
\* decorationField.update(decos, tr): mapped for a transaction that carries
\* tableEditAnnotation, rebuilt from the new state for any other.
decorationFieldUpdate(value, tagged, changes, doc, sel, tree) ==
    IF tagged THEN mapDecorations(value, changes)
    ELSE buildDecorations(doc, sel, tree)

\* SelectionRange.map(changes) for every range of the selection.
mapRange(r, changes) ==
    IF r.from = r.to
    THEN [from |-> mapPos(changes, r.from, -1), to |-> mapPos(changes, r.from, -1)]
    ELSE [from |-> Min(mapPos(changes, r.from, 1), mapPos(changes, r.to, -1)),
          to |-> Max(mapPos(changes, r.from, 1), mapPos(changes, r.to, -1))]
mapSelection(selection, changes) ==
    IF csEmpty(changes) THEN selection
    ELSE EditorSelectionCreate([i \in 1..Len(selection.ranges) |->
                                   mapRange(selection.ranges[i], changes)],
                               selection.main)

(***************************************************************************)
(* TableWidget: the DOM that toDOM builds and the state its closures keep. *)
(* A drawn table is a record: `at` the range of its decoration, `shown`    *)
(* the widget of that decoration, `w` the docFrom / docTo of the widget    *)
(* the closures captured, liveHeaders / liveRows / liveAligns, the text of *)
(* the header and body cells of the DOM, and whether the DOM is in the     *)
(* view.                                                                   *)
(***************************************************************************)
cellOr(row, i) == IF i <= Len(row) THEN row[i] ELSE << >>
\* TableWidget.toDOM(view)
toDOM(widget, from, to) ==
    [at |-> [from |-> from, to |-> to],
     shown |-> widget,
     w |-> [docFrom |-> widget.docFrom, docTo |-> widget.docTo],
     liveHeaders |-> trimAll(widget.headers),
     liveRows |-> [r \in 1..Len(widget.rows) |-> trimAll(widget.rows[r])],
     liveAligns |-> widget.alignments,
     domHeaders |-> trimAll(widget.headers),
     domRows |-> [r \in 1..Len(widget.rows) |->
                    [i \in 1..Len(widget.headers) |-> trim(cellOr(widget.rows[r], i))]],
     attached |-> TRUE]
\* TableWidget.eq(other)
tableEq(widget, other) == widget.headers = other.headers /\ widget.rows = other.rows

\* Array.prototype.join
RECURSIVE join(_, _)
join(parts, sep) ==
    IF parts = << >> THEN << >>
    ELSE IF Len(parts) = 1 THEN parts[1]
    ELSE parts[1] \o sep \o join(Tail(parts), sep)
pad(s) == <<" ">> \o s \o <<" ">>
sepCell(a) ==
    IF a = "center" THEN <<" ", ":", "-", "-", "-", ":", " ">>
    ELSE IF a = "right" THEN <<" ", "-", "-", "-", ":", " ">>
    ELSE <<" ", ":", "-", "-", "-", " ">>
tableLine(cells) == <<"|">> \o join(cells, <<"|">>) \o <<"|">>
\* TableWidget.reconstructMarkdown(headers, rows, alignments)
reconstructMarkdown(headers, rows, alignments) ==
    join(<<tableLine([i \in 1..Len(headers) |-> pad(headers[i])]),
           tableLine([i \in 1..Len(alignments) |-> sepCell(alignments[i])])>>
         \o [r \in 1..Len(rows) |->
                tableLine([i \in 1..Len(headers) |-> pad(cellOr(rows[r], i))])],
         <<NL>>)

\* readDOM()
readDOM(view) == [view EXCEPT !.liveHeaders = view.domHeaders, !.liveRows = view.domRows]
\* addRowDOM(tbody, focusColIdx), up to its call of sync().
addRowDOM(view) ==
    [view EXCEPT !.domRows = Append(@, [i \in 1..Len(view.liveHeaders) |-> << >>]),
                 !.liveRows = Append(@, [i \in 1..Len(view.liveHeaders) |-> << >>])]
\* addColumnDOM(), up to its call of sync().
addColumnCells(view) ==
    [view EXCEPT !.liveHeaders = Append(@, << >>),
                 !.liveAligns = Append(@, "left"),
                 !.domHeaders = Append(@, << >>),
                 !.domRows = [r \in 1..Len(@) |-> Append(@[r], << >>)],
                 !.liveRows = [r \in 1..Len(@) |->
                                  IF r <= Len(view.domRows) THEN Append(@[r], << >>)
                                  ELSE @[r]]]
addColumnDOM(view) == addColumnCells(readDOM(view))
\* Array.prototype.splice(rowIdx, 1), rowIdx 0-based.
splice(rows, rowIdx) ==
    SubSeq(rows, 1, rowIdx) \o SubSeq(rows, rowIdx + 2, Len(rows))
\* deleteRowDOM(rowIdx), up to its call of sync(); it returns early when one
\* data row is left.
deleteRowKeeps(view) == Len(readDOM(view).liveRows) <= 1
deleteRowCells(view, rowIdx) ==
    [view EXCEPT !.domRows = splice(@, rowIdx), !.liveRows = splice(@, rowIdx)]
deleteRowDOM(view, rowIdx) == deleteRowCells(readDOM(view), rowIdx)
\* deleteColumnDOM(colIdx), up to its call of sync(); it returns early when
\* two columns are left.
deleteColumnKeepsOne(view) == Len(readDOM(view).liveHeaders) <= 1
deleteColumnKeeps(view) == Len(readDOM(view).liveHeaders) <= 2
deleteColumnCells(view, colIdx) ==
    [view EXCEPT !.liveHeaders = splice(@, colIdx),
                 !.liveAligns = splice(@, colIdx),
                 !.domHeaders = splice(@, colIdx),
                 !.domRows = [r \in 1..Len(@) |-> splice(@[r], colIdx)],
                 !.liveRows = [r \in 1..Len(@) |-> splice(@[r], colIdx)]]
deleteColumnDOM(view, colIdx) ==
    IF deleteColumnKeeps(view) THEN readDOM(view)
    ELSE deleteColumnCells(readDOM(view), colIdx)

\* sync() that hands the document start as the start of the change.
syncChangesFromStart(docFrom, docTo, newText) ==
    <<[from |-> 0, to |-> docTo, insert |-> newText]>>
\* The changes sync() hands to view.dispatch.
syncChanges(docFrom, docTo, newText) ==
    <<[from |-> docFrom, to |-> docTo, insert |-> newText]>>
\* Text.sliceString(from, to)
sliceString(doc, from, to) ==
    Slice(doc, Max(0, Min(from, Len(doc))), Max(0, Min(to, Len(doc))))
\* sync(): what it does with newText in hand and the change set built from
\* it: nothing when the stored range already holds newText, a throw out of
\* view.dispatch for a range outside the document, else the dispatch and
\* the new docTo.
syncResult(doc, view, newText, changeSet) ==
    IF newText = sliceString(doc, view.w.docFrom, view.w.docTo)
    THEN [tx |-> "none", threw |-> FALSE, changes |-> << >>, view |-> view]
    ELSE IF changeSet.threw
    THEN [tx |-> "none", threw |-> TRUE, changes |-> << >>, view |-> view]
    ELSE [tx |-> "tagged", threw |-> FALSE, changes |-> changeSet.set,
          view |-> [view EXCEPT !.w.docTo = view.w.docFrom + Len(newText)]]
\* The range the widget has stored when sync() runs.
storedRange(view) == [from |-> view.w.docFrom, to |-> view.w.docTo]
syncText(doc, view, newText) ==
    syncResult(doc, view, newText,
               ChangeSetOf(syncChanges(view.w.docFrom, view.w.docTo, newText), Len(doc)))
sync(doc, view) ==
    syncText(doc, view,
             reconstructMarkdown(view.liveHeaders, view.liveRows, view.liveAligns))

(***************************************************************************)
(* What the view draws after a transaction: a table decoration keeps the   *)
(* DOM of the table drawn at the place it maps from when it holds the same *)
(* widget (mapped decorations) or a widget equal to it (rebuilt            *)
(* decorations: toDOM is not called again); any other table decoration is  *)
(* drawn anew, and a DOM no decoration keeps leaves the view.              *)
(***************************************************************************)
IsTableDeco(d) == d.type = "replace" /\ d.widget.type = "table"
mappedAt(view, changes) ==
    [from |-> mapPos(changes, view.at.from, -1), to |-> mapPos(changes, view.at.to, 1)]
keepsDOM(view, d, at, tagged) ==
    /\ view.attached
    /\ IsTableDeco(d)
    /\ d.from = at.from /\ d.to = at.to
    /\ IF tagged THEN d.widget = view.shown ELSE tableEq(view.shown, d.widget)
redrawView(view, value, changes, tagged) ==
    IF \E i \in 1..Len(value) : keepsDOM(view, value[i], mappedAt(view, changes), tagged)
    THEN [view EXCEPT !.at = mappedAt(view, changes),
                      !.shown = (CHOOSE d \in {value[i] : i \in 1..Len(value)} :
                                    keepsDOM(view, d, mappedAt(view, changes), tagged)).widget]
    ELSE [view EXCEPT !.attached = FALSE]
drawnAnew(views, d, changes, tagged) ==
    /\ IsTableDeco(d)
    /\ ~\E v \in 1..Len(views) : keepsDOM(views[v], d, mappedAt(views[v], changes), tagged)
drawAll(value) ==
    [i \in 1..Len(value) |-> toDOM(value[i].widget, value[i].from, value[i].to)]
redraw(views, value, changes, tagged) ==
    [v \in 1..Len(views) |-> redrawView(views[v], value, changes, tagged)]
    \o drawAll(SelectSeq(value, LAMBDA d : drawnAnew(views, d, changes, tagged)))

(***************************************************************************)
(* The editor: one document with tables and a task item, the caret, the    *)
(* table DOMs, the focused cell and the blur timers.  Each action is one   *)
(* event handler run to its end, with the transaction it dispatches, the   *)
(* update of decorationField and the redraw of the view.                   *)
(***************************************************************************)
DefaultPreferences == [emptySelectionBehavior |-> "word", italicDelimiter |-> "underscore"]

\* What `ev` tells about the handler that ran last.
EvBase ==
    [type |-> "init", tx |-> "none", changes |-> << >>, threw |-> FALSE,
     synced |-> FALSE, attached |-> FALSE,
     stored |-> [from |-> 0, to |-> 0], at |-> [from |-> 0, to |-> 0],
     cell |-> NoCell, command |-> "", handled |-> FALSE, editorRan |-> FALSE,
     pos |-> 0, marker |-> 0, checked |-> FALSE]

\* ChangeSet.empty(length)
emptyChanges(doc) == ChangeSetOf(<< >>, Len(doc)).set
caretAt(pos) == [ranges |-> <<[from |-> pos, to |-> pos]>>, main |-> 0]

EditorDocs ==
    { <<"p", NL, NL, "|", "a", "|", NL, "|", "-", "|", NL, "|", "c", "|", NL, NL,
        "|", "e", "|", NL, "|", "-", "|", NL, "|", "g", "|", NL, NL,
        "-", " ", "[", " ", "]", " ", "t">> }

EditorInit ==
    /\ FormatIdle
    /\ LinkIdle
    /\ viewDoc \in EditorDocs
    /\ viewSel = caretAt(0)
    /\ prefs = DefaultPreferences
    /\ viewTree = syntaxTree(viewDoc)
    /\ decos = buildDecorations(viewDoc, viewSel.ranges, viewTree)
    /\ tables = redraw(<< >>, decos, emptyChanges(viewDoc), FALSE)
    /\ activeCell = NoCell
    /\ timers = << >>
    /\ inputs = 0
    /\ ev = EvBase

\* --- the DOM after a handler ---
nthOf(keep, k) == CHOOSE i \in keep : Cardinality({ j \in keep : j <= i }) = k
renum(keep, i) == Cardinality({ j \in keep : j <= i })
keptViews(views, queue) ==
    { i \in 1..Len(views) : views[i].attached \/ \E k \in 1..Len(queue) : queue[k] = i }
\* A DOM that left the view is forgotten once no timer of it is pending.
Forget(views, active, queue, keep) ==
    /\ tables' = [k \in 1..Cardinality(keep) |-> views[nthOf(keep, k)]]
    /\ activeCell' = IF active = NoCell THEN NoCell
                     ELSE [active EXCEPT !.view = renum(keep, active.view)]
    /\ timers' = [k \in 1..Len(queue) |-> renum(keep, queue[k])]
\* The focused cell may have left the document (its table was redrawn, or
\* the handler removed its row): focus is lost, and the browser may or may
\* not fire blur on the removed element.
Settle(views, active, queue, removed, blurFired) ==
    IF active # NoCell /\ (removed \/ ~views[active.view].attached)
    THEN Forget(views, NoCell,
                IF blurFired THEN Append(queue, active.view) ELSE queue,
                keptViews(views, IF blurFired THEN Append(queue, active.view) ELSE queue))
    ELSE /\ ~blurFired
         /\ Forget(views, active, queue, keptViews(views, queue))

\* A user input whose handler posts no message to the host.
UserInput == inputs' = inputs + 1 /\ UNCHANGED linkVars

\* view.dispatch(tr) (tx is "untagged" or "tagged") or no dispatch ("none"),
\* then the DOM.
Commit(tx, changes, newSel, views, active, queue, removed, blurFired) ==
    /\ viewDoc' = IF tx = "none" THEN viewDoc ELSE csApply(changes, viewDoc)
    /\ viewSel' = IF tx = "none" THEN viewSel ELSE newSel
    /\ viewTree' = IF tx = "none" THEN viewTree ELSE syntaxTree(viewDoc')
    /\ decos' = IF tx = "none" THEN decos
                ELSE decorationFieldUpdate(decos, tx = "tagged", changes,
                                           viewDoc', viewSel'.ranges, viewTree')
    /\ Settle(IF tx = "none" THEN views ELSE redraw(views, decos', changes, tx = "tagged"),
              active, queue, removed, blurFired)
    /\ UNCHANGED <<prefs, fmtVars>>

\* element.focus(): the cell that had the focus gets a blur event, whose
\* handler sets a timer.
blurQueue(newActive) ==
    IF activeCell # NoCell /\ activeCell # newActive
    THEN Append(timers, activeCell.view) ELSE timers

\* --- the editor's own text ---
topLevel(tree, name, pos) ==
    \E i \in 1..Len(tree) :
        /\ tree[i].parent = 0 /\ tree[i].name = name
        /\ tree[i].from <= pos /\ pos <= tree[i].to
CaretPositions == { viewTree[i].to : i \in { k \in 1..Len(viewTree) : viewTree[k].parent = 0 } }

\* A click in the text puts the caret at pos.
MoveCaret(pos, blurFired) ==
    /\ inputs < MaxInputs
    /\ pos \in CaretPositions
    /\ viewSel # caretAt(pos) \/ activeCell # NoCell
    /\ Commit("untagged", emptyChanges(viewDoc), caretAt(pos), tables,
              NoCell, blurQueue(NoCell), FALSE, blurFired)
    /\ ev' = [EvBase EXCEPT !.type = "caret", !.tx = "untagged",
                            !.changes = emptyChanges(viewDoc), !.cell = activeCell]
    /\ UserInput

\* A character typed at the caret, in a paragraph.
TypeChar(blurFired) ==
    /\ inputs < MaxInputs
    /\ activeCell = NoCell
    /\ topLevel(viewTree, "Paragraph", viewSel.ranges[1].from)
    /\ Commit("untagged",
              ChangeSetOf(<<[from |-> viewSel.ranges[1].from, to |-> viewSel.ranges[1].from,
                             insert |-> <<"y">>]>>, Len(viewDoc)).set,
              caretAt(viewSel.ranges[1].from + 1), tables, NoCell, timers, FALSE, blurFired)
    /\ ev' = [EvBase EXCEPT !.type = "type", !.tx = "untagged",
                            !.changes = ChangeSetOf(
                                <<[from |-> viewSel.ranges[1].from,
                                   to |-> viewSel.ranges[1].from,
                                   insert |-> <<"y">>]>>, Len(viewDoc)).set]
    /\ UserInput

\* CheckboxWidget: mousedown on the checkbox of decoration i.
checkboxChanges(widget) ==
    <<[from |-> widget.pos + 1, to |-> widget.pos + 2,
       insert |-> IF widget.checked THEN <<" ">> ELSE <<"x">>]>>
CheckboxRan(i, changeSet, blurFired) ==
    /\ Commit(IF changeSet.threw THEN "none" ELSE "untagged", changeSet.set,
              mapSelection(viewSel, changeSet.set), tables, activeCell, timers,
              FALSE, blurFired)
    /\ ev' = [EvBase EXCEPT !.type = "checkbox",
                            !.tx = IF changeSet.threw THEN "none" ELSE "untagged",
                            !.changes = changeSet.set, !.threw = changeSet.threw,
                            !.pos = decos[i].widget.pos, !.marker = decos[i].from,
                            !.checked = decos[i].widget.checked, !.cell = activeCell]
CheckboxClick(i, blurFired) ==
    /\ inputs < MaxInputs
    /\ i \in 1..Len(decos)
    /\ decos[i].widget.type = "checkbox"
    /\ CheckboxRan(i, ChangeSetOf(checkboxChanges(decos[i].widget), Len(viewDoc)), blurFired)
    /\ UserInput

\* --- the table cells ---
cellExists(view, cell) ==
    /\ cell.col \in 1..Len(view.domHeaders)
    /\ cell.row \in 0..Len(view.domRows)
cellText(view, cell) ==
    IF cell.row = 0 THEN view.domHeaders[cell.col] ELSE view.domRows[cell.row][cell.col]
setCellText(view, cell, text) ==
    IF cell.row = 0 THEN [view EXCEPT !.domHeaders[cell.col] = text]
    ELSE [view EXCEPT !.domRows[cell.row][cell.col] = text]
cellOf(v, row, col) == [view |-> v, row |-> row, col |-> col]

\* A click into a cell of a drawn table: the cell gets the focus (the view
\* ignores events inside the widget, so the editor selection stays).
FocusCell(cell, blurFired) ==
    /\ inputs < MaxInputs
    /\ cell.view \in 1..Len(tables)
    /\ tables[cell.view].attached
    /\ cellExists(tables[cell.view], cell)
    /\ cell # activeCell
    /\ Commit("none", << >>, viewSel, tables, cell, blurQueue(cell), FALSE, blurFired)
    /\ ev' = [EvBase EXCEPT !.type = "focus", !.cell = activeCell]
    /\ UserInput

\* A character typed into the focused cell (contenteditable; no listener
\* of the widget runs).
EditCell(blurFired) ==
    /\ inputs < MaxInputs
    /\ activeCell # NoCell
    /\ Len(cellText(tables[activeCell.view], activeCell)) < MaxCell
    /\ Commit("none", << >>, viewSel,
              [tables EXCEPT ![activeCell.view] =
                  setCellText(@, activeCell, cellText(@, activeCell) \o <<"y">>)],
              activeCell, timers, FALSE, blurFired)
    /\ ev' = [EvBase EXCEPT !.type = "edit", !.cell = activeCell]
    /\ UserInput

\* A handler of the table drawn as tables[v] that ends in sync(): r is what
\* sync() did, focus the cell the handler focuses afterwards (a throw out of
\* sync() leaves the handler before that).
TableSync(type, v, r, focus, queue, threwQueue, removed, blurFired) ==
    /\ Commit(r.tx, r.changes, mapSelection(viewSel, r.changes),
              [tables EXCEPT ![v] = r.view],
              IF r.threw THEN activeCell ELSE focus,
              IF r.threw THEN threwQueue ELSE queue,
              removed, blurFired)
    /\ ev' = [EvBase EXCEPT !.type = type, !.tx = r.tx, !.changes = r.changes,
                            !.threw = r.threw, !.synced = TRUE,
                            !.attached = tables[v].attached,
                            !.stored = storedRange(tables[v]),
                            !.at = tables[v].at, !.cell = activeCell]

\* The timer a blur handler set: readDOM() and sync() when the focus is
\* outside the table by now.
BlurTimer(blurFired) ==
    /\ timers # << >>
    /\ IF activeCell # NoCell /\ activeCell.view = Head(timers)
       THEN /\ Commit("none", << >>, viewSel, tables, activeCell, Tail(timers),
                      FALSE, blurFired)
            /\ ev' = [EvBase EXCEPT !.type = "timer", !.cell = activeCell]
       ELSE TableSync("timer", Head(timers), sync(viewDoc, readDOM(tables[Head(timers)])),
                      activeCell, Tail(timers), Tail(timers), FALSE, blurFired)
    /\ UNCHANGED <<inputs, linkVars>>

\* mousedown on the "+" row button: readDOM(); addRowDOM(tbody, 0).
AddRowButton(v, blurFired) ==
    /\ inputs < MaxInputs
    /\ v \in 1..Len(tables)
    /\ tables[v].attached
    /\ Len(tables[v].domRows) < MaxRows
    /\ TableSync("addRow", v, sync(viewDoc, addRowDOM(readDOM(tables[v]))),
                 cellOf(v, Len(tables[v].domRows) + 1, 1),
                 blurQueue(cellOf(v, Len(tables[v].domRows) + 1, 1)), timers,
                 FALSE, blurFired)
    /\ UserInput

\* mousedown on the "+" column button: addColumnDOM().
AddColumn(v, maxCols, blurFired) ==
    /\ inputs < MaxInputs
    /\ v \in 1..Len(tables)
    /\ tables[v].attached
    /\ Len(tables[v].domHeaders) < maxCols
    /\ TableSync("addColumn", v, sync(viewDoc, addColumnDOM(tables[v])),
                 cellOf(v, 0, Len(tables[v].domHeaders) + 1),
                 blurQueue(cellOf(v, 0, Len(tables[v].domHeaders) + 1)), timers,
                 FALSE, blurFired)
    /\ UserInput
AddColButton(v, blurFired) == AddColumn(v, MaxCols, blurFired)

\* The index of the cell in table.querySelectorAll('th, td'), and back.
cellIndex(view, cell) ==
    IF cell.row = 0 THEN cell.col - 1
    ELSE Len(view.domHeaders) + (cell.row - 1) * Len(view.domHeaders) + cell.col - 1
cellCount(view) == Len(view.domHeaders) * (1 + Len(view.domRows))
cellAtIndex(v, view, idx) ==
    cellOf(v, idx \div Len(view.domHeaders), (idx % Len(view.domHeaders)) + 1)

\* keydown Tab in the focused cell: the next cell, or a new row after the
\* last one.
KeyTab(blurFired) ==
    /\ inputs < MaxInputs
    /\ activeCell # NoCell
    /\ IF cellIndex(tables[activeCell.view], activeCell) + 1 < cellCount(tables[activeCell.view])
       THEN /\ Commit("none", << >>, viewSel, tables,
                      cellAtIndex(activeCell.view, tables[activeCell.view],
                                  cellIndex(tables[activeCell.view], activeCell) + 1),
                      Append(timers, activeCell.view), FALSE, blurFired)
            /\ ev' = [EvBase EXCEPT !.type = "tab", !.cell = activeCell]
       ELSE /\ Len(tables[activeCell.view].domRows) < MaxRows
            /\ TableSync("tab", activeCell.view,
                         sync(viewDoc, addRowDOM(readDOM(tables[activeCell.view]))),
                         cellOf(activeCell.view, Len(tables[activeCell.view].domRows) + 1, 1),
                         Append(timers, activeCell.view), timers, FALSE, blurFired)
    /\ UserInput

\* keydown Enter: the cell below, or a new row under the last one.
KeyEnter(blurFired) ==
    /\ inputs < MaxInputs
    /\ activeCell # NoCell
    /\ IF activeCell.row < Len(tables[activeCell.view].domRows)
       THEN /\ Commit("none", << >>, viewSel, tables,
                      cellOf(activeCell.view, activeCell.row + 1, activeCell.col),
                      Append(timers, activeCell.view), FALSE, blurFired)
            /\ ev' = [EvBase EXCEPT !.type = "enter", !.cell = activeCell]
       ELSE /\ Len(tables[activeCell.view].domRows) < MaxRows
            /\ TableSync("enter", activeCell.view,
                         sync(viewDoc, addRowDOM(readDOM(tables[activeCell.view]))),
                         cellOf(activeCell.view, Len(tables[activeCell.view].domRows) + 1,
                                activeCell.col),
                         Append(timers, activeCell.view), timers, FALSE, blurFired)
    /\ UserInput

\* keydown Escape: cell.blur(); view.focus().
KeyEscape(blurFired) ==
    /\ inputs < MaxInputs
    /\ activeCell # NoCell
    /\ Commit("none", << >>, viewSel, tables, NoCell, Append(timers, activeCell.view),
              FALSE, blurFired)
    /\ ev' = [EvBase EXCEPT !.type = "escape", !.cell = activeCell]
    /\ UserInput

\* keydown Cmd+Backspace in a cell: in a body row, with more than one data
\* row, readDOM(); deleteRowDOM(rowIdx), and the focused cell is in the row
\* that goes; else the handler does nothing.
KeyDeleteRow(blurFired) ==
    /\ inputs < MaxInputs
    /\ activeCell # NoCell
    /\ IF /\ activeCell.row >= 1
          /\ Len(tables[activeCell.view].liveRows) > 1
          /\ ~deleteRowKeeps(tables[activeCell.view])
       THEN TableSync("deleteRow", activeCell.view,
                      sync(viewDoc, deleteRowDOM(tables[activeCell.view],
                                                 activeCell.row - 1)),
                      activeCell, timers, timers, TRUE, blurFired)
       ELSE /\ Commit("none", << >>, viewSel,
                      IF activeCell.row >= 1 /\ Len(tables[activeCell.view].liveRows) > 1
                      THEN [tables EXCEPT ![activeCell.view] = readDOM(@)] ELSE tables,
                      activeCell, timers, FALSE, blurFired)
            /\ ev' = [EvBase EXCEPT !.type = "deleteRow", !.cell = activeCell]
    /\ UserInput

\* --- format commands ---
\* applyFormattingToActiveTableCell(command, preferences, options): cell is
\* getActiveTableCell() (NoCell for null), originalText its textContent and
\* selection getSelectionOffsetsInElement(cell).
cellFormatResult(changed, text, originalText) ==
    [handled |-> TRUE, changed |-> changed,
     text |-> IF changed THEN text ELSE originalText]
applyFormattingToActiveTableCell(cell, originalText, selection, command, preferences, options) ==
    IF cell = NoCell
    THEN [handled |-> FALSE, changed |-> FALSE, text |-> originalText]
    ELSE cellFormatResult(
            applyCommandToText(originalText, selection, command, preferences, options).changed,
            applyCommandToText(originalText, selection, command, preferences, options).text,
            originalText)
\* tryHandleTableWidgetCommand that finds no cell.
tryHandleNoCell(cell, originalText, selection, command, preferences, options) ==
    [handled |-> FALSE, changed |-> FALSE, text |-> originalText]
\* tryHandleTableWidgetCommand(command, preferences, options)
tryHandleTableWidgetCommand(cell, originalText, selection, command, preferences, options) ==
    applyFormattingToActiveTableCell(cell, originalText, selection, command,
                                     preferences, options)

commandOptions(command) == [linkUrl |-> IF command = "link" THEN LinkUrl ELSE NoUrl]
activeText == IF activeCell = NoCell THEN << >>
              ELSE cellText(tables[activeCell.view], activeCell)

\* executeFormattingCommand, the command handled in the focused cell.
CommandInCell(command, handled, blurFired) ==
    /\ Commit("none", << >>, viewSel,
              [tables EXCEPT ![activeCell.view] = setCellText(@, activeCell, handled.text)],
              activeCell, timers, FALSE, blurFired)
    /\ ev' = [EvBase EXCEPT !.type = "command", !.command = command,
                            !.handled = TRUE, !.cell = activeCell]
\* executeFormattingCommand, the command handed to applyFormattingToEditor.
CommandInEditor(command, run, blurFired) ==
    /\ Commit(IF run.dispatched THEN "untagged" ELSE "none", run.changes, run.selection,
              tables, activeCell, timers, FALSE, blurFired)
    /\ ev' = [EvBase EXCEPT !.type = "command", !.command = command,
                            !.tx = IF run.dispatched THEN "untagged" ELSE "none",
                            !.changes = run.changes, !.threw = run.threw,
                            !.editorRan = TRUE, !.cell = activeCell]
executeFormattingCommand(command, options, handled, blurFired) ==
    IF handled.handled THEN CommandInCell(command, handled, blurFired)
    ELSE CommandInEditor(command,
                         applyFormattingToEditor(viewDoc, viewSel, command, prefs, options),
                         blurFired)
\* A format command from a shortcut or from the host (a link command comes
\* with its url); selection is the DOM selection inside the focused cell:
\* all of its text, or the caret at its end.
FormatCommand(command, selection, blurFired) ==
    /\ inputs < MaxInputs
    /\ selection.from \in {0, Len(activeText)}
    /\ selection.to = Len(activeText)
    /\ executeFormattingCommand(command, commandOptions(command),
            tryHandleTableWidgetCommand(activeCell, activeText, selection, command, prefs,
                                        commandOptions(command)),
            blurFired)
    /\ UserInput

EditorNext ==
    \E blurFired \in BOOLEAN :
        \/ \E pos \in 0..Len(viewDoc) : MoveCaret(pos, blurFired)
        \/ TypeChar(blurFired)
        \/ \E i \in 1..Len(decos) : CheckboxClick(i, blurFired)
        \/ \E v \in 1..Len(tables), row \in 0..MaxRows, col \in 1..MaxCols :
              FocusCell(cellOf(v, row, col), blurFired)
        \/ EditCell(blurFired)
        \/ BlurTimer(blurFired)
        \/ \E v \in 1..Len(tables) : AddRowButton(v, blurFired)
        \/ \E v \in 1..Len(tables) : AddColButton(v, blurFired)
        \/ KeyTab(blurFired)
        \/ KeyEnter(blurFired)
        \/ KeyEscape(blurFired)
        \/ KeyDeleteRow(blurFired)
        \/ \E command \in Commands, from \in 0..MaxCell, to \in 0..MaxCell :
              FormatCommand(command, [from |-> from, to |-> to], blurFired)

Spec == EditorInit /\ [][EditorNext]_vars

(***************************************************************************)
(* The table widget on its own: one table of two columns and one data row, *)
(* and the operations of its grid -- cell edits, row and column            *)
(* insertions, and row and column deletion requests.  No handler of the    *)
(* widget calls deleteColumnDOM; a request for it is the call itself.      *)
(***************************************************************************)
GridDocs ==
    { <<"p", NL, NL, "|", "a", "|", "b", "|", NL, "|", "-", "|", "-", "|", NL,
        "|", "c", "|", "d", "|">> }

GridInit ==
    /\ FormatIdle
    /\ LinkIdle
    /\ viewDoc \in GridDocs
    /\ viewSel = caretAt(0)
    /\ prefs = DefaultPreferences
    /\ viewTree = syntaxTree(viewDoc)
    /\ decos = buildDecorations(viewDoc, viewSel.ranges, viewTree)
    /\ tables = redraw(<< >>, decos, emptyChanges(viewDoc), FALSE)
    /\ activeCell = NoCell
    /\ timers = << >>
    /\ inputs = 0
    /\ ev = EvBase

\* The focused cell after column col (1-based) of its table has gone.
cellAfterColumn(v, col) ==
    IF activeCell # NoCell /\ activeCell.view = v /\ activeCell.col > col
    THEN [activeCell EXCEPT !.col = @ - 1] ELSE activeCell

\* deleteColumnDOM(col - 1) on the table drawn as tables[v].
DeleteColumn(v, col, blurFired) ==
    /\ inputs < MaxInputs
    /\ v \in 1..Len(tables)
    /\ tables[v].attached
    /\ col \in 1..Len(tables[v].domHeaders)
    /\ IF deleteColumnKeeps(tables[v])
       THEN /\ Commit("none", << >>, viewSel,
                      [tables EXCEPT ![v] = deleteColumnDOM(@, col - 1)],
                      activeCell, timers, FALSE, blurFired)
            /\ ev' = [EvBase EXCEPT !.type = "deleteColumn", !.cell = activeCell]
       ELSE TableSync("deleteColumn", v,
                      sync(viewDoc, deleteColumnDOM(tables[v], col - 1)),
                      cellAfterColumn(v, col), timers, timers,
                      activeCell # NoCell /\ activeCell.view = v /\ activeCell.col = col,
                      blurFired)
    /\ UserInput

GridNext ==
    \E blurFired \in BOOLEAN :
        \/ \E v \in 1..Len(tables), row \in 0..MaxRows, col \in 1..GridMaxCols :
              FocusCell(cellOf(v, row, col), blurFired)
        \/ EditCell(blurFired)
        \/ KeyEscape(blurFired)
        \/ BlurTimer(blurFired)
        \/ \E v \in 1..Len(tables) : AddRowButton(v, blurFired)
        \/ \E v \in 1..Len(tables) : AddColumn(v, GridMaxCols, blurFired)
        \/ KeyDeleteRow(blurFired)
        \/ \E v \in 1..Len(tables), col \in 1..GridMaxCols : DeleteColumn(v, col, blurFired)

SpecGrid == GridInit /\ [][GridNext]_vars

\* The timer of a blur handler is a setTimeout(..., 0): once set it fires.
\* Nothing obliges the user to act.
\* The step of the oldest timer, which only BlurTimer takes: it is enabled
\* exactly when BlurTimer is.
TimerFires == timers # << >> /\ timers' = Tail(timers)
SpecGridLive == SpecGrid /\ WF_timers(TimerFires)

(***************************************************************************)
(* The link command without a url: the view asks its host for the url      *)
(* (LinkInput), the host shows an input box and posts what the user gave   *)
(* (LinkInputResult: a url, the empty text, or undefined when the box was  *)
(* dismissed), and the view applies the link when the result arrives.      *)
(***************************************************************************)
LinkInit == GridInit

\* What showInputBox resolves to.
InputBoxValues == {LinkUrl, << >>, NoUrl}
\* if (url): undefined and the empty text are falsy.
hasUrlAlways(url) == TRUE
hasUrl(url) == url # NoUrl /\ url # << >>

\* executeFormattingCommand('link') with no url, or the 'ognile:request-link'
\* event of a cell shortcut or of the toolbar: sendLinkInput().
LinkCommand(blurFired) ==
    /\ inputs < MaxInputs
    /\ toHost + Len(toView) < MaxRequests
    /\ Commit("none", << >>, viewSel, tables, activeCell, timers, FALSE, blurFired)
    /\ ev' = [EvBase EXCEPT !.type = "linkRequest", !.command = "link",
                            !.cell = activeCell]
    /\ toHost' = toHost + 1
    /\ inputs' = inputs + 1
    /\ UNCHANGED <<toView, syncVars>>

\* The host answers a LinkInput message with what its input box gave.
HostAnswers(url) ==
    /\ toHost > 0
    /\ toHost' = toHost - 1
    /\ toView' = Append(toView, url)
    /\ UNCHANGED <<viewDoc, viewSel, prefs, ev, uiVars, fmtVars, syncVars>>

\* onLinkInputResult: the oldest LinkInputResult message arrives; selection
\* is the DOM selection inside the focused cell, as for FormatCommand.
LinkInputResult(selection, blurFired) ==
    /\ toView # << >>
    /\ selection.from \in {0, Len(activeText)}
    /\ selection.to = Len(activeText)
    /\ IF hasUrl(Head(toView))
       THEN executeFormattingCommand("link", [linkUrl |-> Head(toView)],
                tryHandleTableWidgetCommand(activeCell, activeText, selection, "link",
                                            prefs, [linkUrl |-> Head(toView)]),
                blurFired)
       ELSE /\ Commit("none", << >>, viewSel, tables, activeCell, timers, FALSE, blurFired)
            /\ ev' = [EvBase EXCEPT !.type = "linkResult", !.cell = activeCell]
    /\ toView' = Tail(toView)
    /\ UNCHANGED <<toHost, inputs, syncVars>>

LinkNext ==
    \E blurFired \in BOOLEAN :
        \/ \E pos \in 0..Len(viewDoc) : MoveCaret(pos, blurFired)
        \/ \E v \in 1..Len(tables), row \in 0..MaxRows, col \in 1..GridMaxCols :
              FocusCell(cellOf(v, row, col), blurFired)
        \/ KeyEscape(blurFired)
        \/ BlurTimer(blurFired)
        \/ LinkCommand(blurFired)
        \/ \E url \in InputBoxValues : HostAnswers(url)
        \/ \E from \in 0..MaxCell, to \in 0..MaxCell :
              LinkInputResult([from |-> from, to |-> to], blurFired)

SpecLink == LinkInit /\ [][LinkNext]_vars

(***************************************************************************)
(* The synchronisation of edits.  A user focuses a panel and edits in it;  *)
(* the webview debounces the edit (sendEdit) and posts it; the provider    *)
(* debounces it again (handleEdit) and applies it to the document; a       *)
(* change of a document is sent as an Update to the panels on it.          *)
(***************************************************************************)
syncRest == <<viewDoc, viewSel, prefs, fmtVars, viewTree, decos, tables, activeCell,
              timers, toHost, toView>>

SyncInit ==
    /\ FormatIdle
    /\ EditorIdle
    /\ toHost = 0
    /\ toView = << >>
    /\ \E panelDocument \in [Panels -> Documents] :
          panelDocument[1] = "A" /\ SyncStart(panelDocument)

SyncEv(type, panel, document, content, cleared) ==
    [type |-> type, panel |-> panel, document |-> document, content |-> content,
     cleared |-> cleared]

\* sendEdit(content) in the webview w.
sendEdit(w, content) ==
    LET cleared == IF w.editTimer # 0 THEN clearTimeout(w.timeouts, w.editTimer)
                   ELSE w.timeouts
        handle == freshHandle(handles(cleared))
    IN [w EXCEPT !.editTimer = handle,
                 !.timeouts = cleared \cup {[id |-> handle, content |-> content]}]

\* The webview posts an Edit message to the host.
post(w, content) == [w EXCEPT !.toHost = Append(@, content)]

\* focusin in panel p (setupFocusTracking): sendFocus(); the panel that had
\* the focus gets focusout: sendBlur().  The provider's handling of the two
\* messages (Focus, Blur of onDidReceiveMessage) is part of the step.
Focus(p) ==
    /\ inputs < SyncMaxInputs
    /\ ~webviews[p].focused
    /\ webviews' = [q \in Panels |-> [webviews[q] EXCEPT !.focused = (q = p)]]
    /\ provider' = [provider EXCEPT !.focusedWebviews = [q \in Panels |-> q = p]]
    /\ inputs' = inputs + 1
    /\ ev' = SyncEv("Focus", p, workspace.panelDocument[p], NoContent, FALSE)
    /\ UNCHANGED <<workspace, syncRest>>

\* The user changes the text of the focused panel p to content: the update
\* listener of createEditor calls sendEdit with the new text.
UserEdit(p, content) ==
    /\ inputs < SyncMaxInputs
    /\ webviews[p].focused
    /\ content # webviews[p].content
    /\ webviews' = [webviews EXCEPT
                      ![p] = sendEdit([@ EXCEPT !.content = content], content)]
    /\ inputs' = inputs + 1
    /\ ev' = SyncEv("sendEdit", p, workspace.panelDocument[p], content,
                    webviews[p].timeouts # {})
    /\ UNCHANGED <<workspace, provider, syncRest>>

\* A timeout of sendEdit runs in panel p: it posts the Edit message.
WebTimerFires(p) ==
    \E t \in webviews[p].timeouts :
        /\ Len(webviews[p].toHost) < MaxMessages
        /\ webviews' = [webviews EXCEPT
                          ![p] = post([@ EXCEPT !.timeouts = @ \ {t}], t.content)]
        /\ ev' = SyncEv("Edit", p, workspace.panelDocument[p], t.content, FALSE)
        /\ UNCHANGED <<workspace, provider, inputs, syncRest>>

\* handleEdit(document, content) of the provider.
handleEdit(document, content) ==
    LET cleared == IF provider.editTimer # 0
                   THEN clearTimeout(workspace.timeouts, provider.editTimer)
                   ELSE workspace.timeouts
        handle == freshHandle(handles(cleared)
                              \cup {provider.updateTimers[q] : q \in Panels})
    IN /\ provider' = [provider EXCEPT !.pendingEdit = content, !.editTimer = handle]
       /\ workspace' = [workspace EXCEPT
             !.timeouts = cleared \cup {[id |-> handle, kind |-> "edit",
                                         document |-> document, panel |-> 0]}]

\* onDidReceiveMessage of panel p takes the oldest Edit message the panel
\* posted.
HostReceives(p) ==
    /\ webviews[p].toHost # << >>
    /\ handleEdit(workspace.panelDocument[p], Head(webviews[p].toHost))
    /\ ev' = SyncEv("handleEdit", p, workspace.panelDocument[p], Head(webviews[p].toHost),
                    \E t \in workspace.timeouts :
                        t.kind = "edit" /\ t.id = provider.editTimer)
    /\ webviews' = [webviews EXCEPT ![p].toHost = Tail(@)]
    /\ UNCHANGED <<inputs, syncRest>>

\* The timeout of handleEdit runs up to its await: it takes pendingEdit and
\* calls workspace.applyEdit for the document of its closure.
HostEditTimerFires ==
    \E t \in workspace.timeouts :
        /\ t.kind = "edit"
        /\ Len(workspace.applying) < MaxMessages
        /\ IF provider.pendingEdit = NoContent
           THEN /\ workspace' = [workspace EXCEPT !.timeouts = @ \ {t}]
                /\ UNCHANGED provider
           ELSE /\ provider' = [provider EXCEPT !.pendingEdit = NoContent,
                                                !.isApplyingEdit = TRUE]
                /\ workspace' = [workspace EXCEPT
                      !.timeouts = @ \ {t},
                      !.applying = Append(@, [document |-> t.document,
                                              content |-> provider.pendingEdit,
                                              landed |-> FALSE])]
        /\ ev' = SyncEv("applyEdit", 0, t.document, provider.pendingEdit, FALSE)
        /\ UNCHANGED <<webviews, inputs, syncRest>>

\* The change subscription of panel q, for a change of `document`; state is
\* the provider with the timeouts of the host.
changeSubscription(state, q, panelDocument, document) ==
    IF panelDocument[q] # document THEN state
    ELSE IF state.provider.isApplyingEdit THEN state
    ELSE IF state.provider.focusedWebviews[q] THEN state
    ELSE LET existing == state.provider.updateTimers[q]
             cleared == IF existing # 0 THEN clearTimeout(state.timeouts, existing)
                        ELSE state.timeouts
             handle == freshHandle(handles(cleared) \cup {state.provider.editTimer}
                          \cup {state.provider.updateTimers[r] : r \in Panels \ {q}})
         IN [provider |-> [state.provider EXCEPT !.updateTimers[q] = handle],
             timeouts |-> cleared \cup {[id |-> handle, kind |-> "update",
                                         document |-> document, panel |-> q]}]

\* onDidChangeTextDocument runs the subscriptions of the panels q..NumPanels.
RECURSIVE onDidChangeTextDocument(_, _, _, _)
onDidChangeTextDocument(state, q, panelDocument, document) ==
    IF q > NumPanels THEN state
    ELSE onDidChangeTextDocument(changeSubscription(state, q, panelDocument, document),
                                 q + 1, panelDocument, document)

\* The document `document` gets the text `content`, and its change event runs.
Changed(document, content, applying, external) ==
    LET state == onDidChangeTextDocument(
                    [provider |-> provider, timeouts |-> workspace.timeouts],
                    1, workspace.panelDocument, document)
    IN /\ provider' = state.provider
       /\ workspace' = [workspace EXCEPT !.text[document] = content,
                                         !.timeouts = state.timeouts,
                                         !.applying = applying,
                                         !.external = external]

\* The oldest applyEdit call that has not changed its document yet does so.
EditLands ==
    \E i \in 1..Len(workspace.applying) :
        /\ ~workspace.applying[i].landed
        /\ \A j \in 1..(i - 1) : workspace.applying[j].landed
        /\ Changed(workspace.applying[i].document, workspace.applying[i].content,
                   [workspace.applying EXCEPT ![i].landed = TRUE], workspace.external)
        /\ ev' = SyncEv("changed", 0, workspace.applying[i].document,
                        workspace.applying[i].content, FALSE)
        /\ UNCHANGED <<webviews, inputs, syncRest>>

\* The promise of the oldest applyEdit call resolves: the timeout's callback
\* resumes after its await.
ApplyResolves ==
    /\ workspace.applying # << >>
    /\ Head(workspace.applying).landed
    /\ provider' = [provider EXCEPT !.isApplyingEdit = FALSE]
    /\ workspace' = [workspace EXCEPT !.applying = Tail(@)]
    /\ ev' = SyncEv("applied", 0, Head(workspace.applying).document,
                    Head(workspace.applying).content, FALSE)
    /\ UNCHANGED <<webviews, inputs, syncRest>>

\* The document is changed by something else than the provider (a text
\* editor on the same file).
ExternalChange(document, content) ==
    /\ workspace.external < MaxExternal
    /\ \E p \in Panels : workspace.panelDocument[p] = document
    /\ content # workspace.text[document]
    /\ Changed(document, content, workspace.applying, workspace.external + 1)
    /\ ev' = SyncEv("external", 0, document, content, FALSE)
    /\ UNCHANGED <<webviews, inputs, syncRest>>

\* The timeout of a change subscription runs: it posts an Update with the
\* text the document has now.
UpdateTimerFires ==
    \E t \in workspace.timeouts :
        /\ t.kind = "update"
        /\ Len(webviews[t.panel].fromHost) < MaxMessages
        /\ workspace' = [workspace EXCEPT !.timeouts = @ \ {t}]
        /\ webviews' = [webviews EXCEPT
              ![t.panel].fromHost = Append(@, workspace.text[t.document])]
        /\ ev' = SyncEv("Update", t.panel, t.document, workspace.text[t.document], FALSE)
        /\ UNCHANGED <<provider, inputs, syncRest>>

\* updateEditorContent(view, content); the dispatch runs the update listener
\* of createEditor, which calls sendEdit.
updateEditorContent(w, content) ==
    IF w.content = content THEN w
    ELSE sendEdit([w EXCEPT !.content = content], content)

\* The webview of panel p receives the oldest Update message: onUpdate.
WebReceives(p) ==
    /\ webviews[p].fromHost # << >>
    /\ webviews' = [webviews EXCEPT
          ![p] = updateEditorContent([@ EXCEPT !.fromHost = Tail(@)],
                                     Head(webviews[p].fromHost))]
    /\ ev' = SyncEv("onUpdate", p, workspace.panelDocument[p],
                    Head(webviews[p].fromHost), FALSE)
    /\ UNCHANGED <<workspace, provider, inputs, syncRest>>

\* What runs by itself: timeouts, message deliveries, the applyEdit call.
SyncProgress ==
    \/ \E p \in Panels : WebTimerFires(p)
    \/ \E p \in Panels : HostReceives(p)
    \/ HostEditTimerFires
    \/ EditLands
    \/ ApplyResolves
    \/ UpdateTimerFires
    \/ \E p \in Panels : WebReceives(p)

SyncNext ==
    \/ \E p \in Panels : Focus(p)
    \/ \E p \in Panels, content \in Contents : UserEdit(p, content)
    \/ \E document \in Documents, content \in Contents : ExternalChange(document, content)
    \/ SyncProgress

SpecSync == SyncInit /\ [][SyncNext]_vars

\* Every timeout runs, every message arrives and every applyEdit completes.
SpecSyncLive ==
    /\ SpecSync
    /\ \A p \in Panels : WF_syncVars(WebTimerFires(p))
    /\ \A p \in Panels : WF_syncVars(HostReceives(p))
    /\ WF_syncVars(HostEditTimerFires)
    /\ WF_syncVars(EditLands)
    /\ WF_syncVars(ApplyResolves)
    /\ WF_syncVars(UpdateTimerFires)
    /\ \A p \in Panels : WF_syncVars(WebReceives(p))

\* C1: the edit descriptors accumulated by applyFormattingToEditor are in
\* offsets of the pre-mutation document (0 <= from <= to <= its length) and,
\* sorted by ascending from, no two of them overlap.
C1_DescriptorsInOriginalOffsets ==
    ev.type = "format" =>
        LET changes == sortChanges(ev.local.changes)
        IN /\ \A i \in 1..Len(changes) :
                 /\ 0 <= changes[i].from
                 /\ changes[i].from <= changes[i].to
                 /\ changes[i].to <= Len(ev.doc)
           /\ \A i \in 1..Len(changes) : \A j \in 1..Len(changes) :
                 i < j => changes[i].to <= changes[j].from

\* The document with every range of `ranges` wrapped in `marker` on its own.
RECURSIVE WrapEach(_, _, _, _)
WrapEach(text, ranges, i, marker) ==
    IF i = 0 THEN text
    ELSE WrapEach(replaceRange(text, ranges[i].from, ranges[i].to,
                               marker \o Slice(text, ranges[i].from, ranges[i].to) \o marker),
                  ranges, i - 1, marker)

\* Bold applied to the range alone wraps it.
WrapsAlone(text, range) ==
    LET r == applyCommandToText(text, range, "bold", prefs, NoOptions)
    IN r.text = replaceRange(text, range.from, range.to,
                             <<"*", "*">> \o Slice(text, range.from, range.to) \o <<"*", "*">>)

\* The case of C3: a bold command on several non-empty, pairwise disjoint
\* ranges, each of which bold would wrap when applied alone.
C3_Case ==
    /\ ev.type = "format"
    /\ ev.command = "bold"
    /\ Len(ev.selection.ranges) >= 2
    /\ \A i \in 1..Len(ev.selection.ranges) :
          /\ ev.selection.ranges[i].from < ev.selection.ranges[i].to
          /\ WrapsAlone(ev.doc, ev.selection.ranges[i])

\* C3: multi-cursor independence -- one bold command on several disjoint
\* non-empty ranges wraps every range (the document equals the one obtained by
\* wrapping each range on its own) and every range of the resulting viewSel
\* selects the text it selected before.
C3_MultiCursorIndependence ==
    C3_Case =>
        /\ ~ev.threw
        /\ viewDoc = WrapEach(ev.doc, ev.selection.ranges, Len(ev.selection.ranges),
                          <<"*", "*">>)
        /\ Len(viewSel.ranges) = Len(ev.selection.ranges)
        /\ \A i \in 1..Len(viewSel.ranges) :
              Slice(viewDoc, viewSel.ranges[i].from, viewSel.ranges[i].to)
                  = Slice(ev.doc, ev.selection.ranges[i].from, ev.selection.ranges[i].to)

\* C2: round trip -- for a non-empty selection and a marker command, applying
\* the command twice (the second time to the returned text with the returned
\* selection) restores the original text.
C2_RoundTrip ==
    (fStage = 2 /\ fSel.from # fSel.to /\ fCmd \in MarkerCommands)
        => fRes2.text = fText

(***************************************************************************)
(* Claims about the overlay set of buildDecorations (SpecDeco).            *)
(***************************************************************************)
IsReplace(d) == d.type = "replace"
IsHide(d) == d.type = "replace" /\ d.widget = NoWidget
IsBlockWidget(d) == d.type = "replace" /\ d.widget # NoWidget /\ d.block
Intersects(a, b) == a.from < b.to /\ b.from < a.to

\* C6: the overlay set holds no block Widget (frontmatter, table, image,
\* horizontal rule, code block) whose range intersects the range of a Hide
\* overlay or of another replacement Widget.
C6_BlockWidgetsDisjoint ==
    \A i, j \in 1..Len(decos) :
        (i # j /\ IsBlockWidget(decos[i]) /\ IsReplace(decos[j]))
            => ~Intersects(decos[i], decos[j])

\* Some Hide overlay of the set covers [from, to).
HideCovers(from, to) ==
    \E i \in 1..Len(decos) :
        IsHide(decos[i]) /\ decos[i].from <= from /\ to <= decos[i].to
\* Some Hide overlay of the set intersects [from, to).
HideTouches(from, to) ==
    \E i \in 1..Len(decos) :
        IsHide(decos[i]) /\ decos[i].from < to /\ from < decos[i].to

MarkupNames == {"HeaderMark", "EmphasisMark", "StrikethroughMark", "CodeMark", "LinkMark"}
SyntaxNames == HeadingNames \cup {"StrongEmphasis", "Emphasis", "Strikethrough",
                                  "InlineCode", "Link", "Escape"}
\* The markup of syntax node i, as the parser marks it: the mark children of
\* the node (of a link written with a url), the backslash of an escape.
MarkupOf(i) ==
    IF viewTree[i].name = "Escape"
    THEN { [from |-> viewTree[i].from, to |-> viewTree[i].from + 1] }
    ELSE IF viewTree[i].name = "Link"
            /\ ~\E j \in 1..Len(viewTree) :
                    viewTree[j].parent = i /\ viewTree[j].name = "URL"
    THEN {}
    ELSE { [from |-> viewTree[j].from, to |-> viewTree[j].to] :
            j \in { k \in 1..Len(viewTree) :
                        viewTree[k].parent = i /\ viewTree[k].name \in MarkupNames } }
\* The markup of the wiki link that starts at offset s and ends at offset e.
WikiMarkupOf(s, m) ==
    { [from |-> s, to |-> s + 2], [from |-> m.to - 2, to |-> m.to] }
\* Hides lie over all of the markup when the node at [from, to] is not
\* overlapped by the selection, and over none of it when it is.
RevealedIffSelected(markup, from, to) ==
    IF isRangeSelected(viewSel.ranges, from, to)
    THEN \A m \in markup : ~HideTouches(m.from, m.to)
    ELSE \A m \in markup : HideCovers(m.from, m.to)
HasHeadingLine(i) ==
    \E k \in 1..Len(decos) :
        /\ decos[k].type = "line"
        /\ decos[k].class = headingClass(viewTree[i].name)
        /\ decos[k].from = lineFromAt(viewDoc, viewTree[i].from)

\* C7: for heading, strong / emphasis, strikethrough, inline code, link,
\* escape and wiki-link syntax outside the frontmatter, the overlay set holds
\* the Hides over the node's markup if and only if the node is not overlapped
\* by the selection; a heading has its Line overlay in both cases.
C7_SelectionRevealsSyntax ==
    /\ \A i \in 1..Len(viewTree) :
          (viewTree[i].name \in SyntaxNames
           /\ viewTree[i].from >= detectFrontmatter(viewDoc).end)
            => /\ RevealedIffSelected(MarkupOf(i), viewTree[i].from, viewTree[i].to)
               /\ viewTree[i].name \in HeadingNames => HasHeadingLine(i)
    /\ \A s \in 0..Len(viewDoc) :
          (viewTree # << >> /\ s + 4 <= Len(viewDoc) /\ wikiMatchAt(viewDoc, s).ok
           /\ s >= detectFrontmatter(viewDoc).end)
            => RevealedIffSelected(WikiMarkupOf(s, wikiMatchAt(viewDoc, s)),
                                   s, wikiMatchAt(viewDoc, s).to)

(***************************************************************************)
(* Claims about the editor, the table widget and the checkbox (Spec).      *)
(***************************************************************************)
SyncHandlers == {"timer", "addRow", "addColumn", "tab", "enter", "deleteRow"}

\* C4: whenever a table widget that is drawn in the view runs sync(), the
\* range [docFrom, docTo) it has stored is exactly the range the table's
\* markup occupies in the document at that moment.
C4_StoredRangeIsTableRange ==
    (ev.type \in SyncHandlers /\ ev.synced /\ ev.attached) => ev.stored = ev.at

\* C5: activating a checkbox replaces the one character between the
\* brackets of its task marker, at the offset the marker has in the
\* document now, by "x" (unchecked) or " " (checked), and changes nothing
\* else of the document.
C5_CheckboxWritesOwnMarker ==
    [][ev'.type = "checkbox" =>
         viewDoc' = replaceRange(viewDoc, ev'.marker + 1, ev'.marker + 2,
                                 IF ev'.checked THEN <<" ">> ELSE <<"x">>)]_vars

\* C8: after a transaction that does not carry the table-edit tag the
\* overlay set is buildDecorations of the new document, selection and tree;
\* after a tagged transaction it is the previous set mapped through the
\* changes of the transaction.
C8_RebuildOrMap ==
    [][ev'.type \in SyncHandlers \cup {"caret", "type", "checkbox", "command"} =>
         /\ ev'.tx = "untagged" =>
              decos' = buildDecorations(viewDoc', viewSel'.ranges, viewTree')
         /\ ev'.tx = "tagged" => decos' = mapDecorations(decos, ev'.changes)]_vars
\* A tagged transaction has left an overlay set that a rebuild would not give.
C8_MappedNotRebuilt ==
    /\ ev.type \in SyncHandlers
    /\ ev.tx = "tagged"
    /\ decos # buildDecorations(viewDoc, viewSel.ranges, viewTree)

\* C9: a table write-back leaves the document before sourceFrom and the
\* document from sourceTo on as they were.
C9_WriteBackFrame ==
    [][(ev'.type \in SyncHandlers /\ ev'.tx = "tagged") =>
         /\ Slice(viewDoc', 0, ev'.stored.from) = Slice(viewDoc, 0, ev'.stored.from)
         /\ Slice(viewDoc', Len(viewDoc') - (Len(viewDoc) - ev'.stored.to), Len(viewDoc'))
              = Slice(viewDoc, ev'.stored.to, Len(viewDoc))
         /\ Len(viewDoc') >= ev'.stored.from + (Len(viewDoc) - ev'.stored.to)]_vars
\* A blur timer has written an edited table back, with text before and
\* after the stored range.
C9_WroteBack ==
    /\ ev.type = "timer"
    /\ ev.tx = "tagged"
    /\ ev.stored.from > 0
    /\ Len(viewDoc) > ev.stored.from + (ev.stored.to - ev.stored.from) + 8

\* C10: a format command that arrives while a table cell has the focus
\* does not run applyFormattingToEditor, leaves the document and the editor
\* selection as they are, and changes at most the text of that cell.
C10_CommandStaysInCell ==
    [][(ev'.type = "command" /\ ev'.cell # NoCell) =>
         /\ ~ev'.editorRan
         /\ viewDoc' = viewDoc
         /\ viewSel' = viewSel
         /\ tables' = [tables EXCEPT ![activeCell.view] =
                           setCellText(@, activeCell,
                                       cellText(tables'[activeCell.view], activeCell))]]_vars
\* A command has changed the text of the focused cell.
C10_CellFormatted ==
    /\ ev.type = "command"
    /\ ev.cell # NoCell
    /\ ev.handled
    /\ Len(cellText(tables[ev.cell.view], ev.cell)) > MaxCell
(***************************************************************************)
(* Claims about the formatting engine on any input (SpecEngine).           *)
(***************************************************************************)
\* C11: after bold has wrapped a non-empty range of a text, bold applied to
\* the resulting text with any range inside the wrapped span returns the
\* original text.
C11_UnwrapIdempotent ==
    (fStage = 2 /\ fCmd = "bold" /\ Wrapped(fRes1, <<"*", "*">>))
        => fRes2.text = fText

(***************************************************************************)
(* Further claims about the orchestrator (SpecOrch).                       *)
(***************************************************************************)
\* C12: when the command leaves the text as it was over all the selection
\* ranges (nextText equals the document), applyFormattingToEditor returns
\* false without a throw or a dispatch, and the document and the selection
\* are unchanged.
C12_ZeroNetChangeIsNoOp ==
    (ev.type = "format" /\ ev.local.nextText = ev.doc)
        => /\ ~ev.returned
           /\ ~ev.threw
           /\ viewDoc = ev.doc
           /\ viewSel = ev.selection

(***************************************************************************)
(* Further claims about the formatting engine (SpecEngine).                *)
(***************************************************************************)
\* The selection of the first application, clamped and ordered.
GivenSelection == normalizeSelection(fSel, Len(fText))
\* An empty selection has been handed to the command.
CaretGiven == fStage >= 1 /\ GivenSelection.from = GivenSelection.to
\* The offsets p joined to the caret by word characters only.
JoinedLeft(text, pos) ==
    {p \in 0..pos : \A i \in p..(pos - 1) : isWordChar(CharAt(text, i))}
JoinedRight(text, pos) ==
    {p \in pos..Len(text) : \A i \in pos..(p - 1) : isWordChar(CharAt(text, i))}
\* The maximal run of word characters that contains the caret or touches it.
WordRun(text, pos) ==
    [from |-> CHOOSE p \in JoinedLeft(text, pos) : \A q \in JoinedLeft(text, pos) : p <= q,
     to |-> CHOOSE p \in JoinedRight(text, pos) : \A q \in JoinedRight(text, pos) : p >= q]
MarkerOf(command, preferences) ==
    CASE command = "bold" -> <<"*", "*">>
      [] command = "italic" -> italicMarker(preferences)
      [] command = "strikethrough" -> <<"~", "~">>
WithMarkers(preferences) == [preferences EXCEPT !.emptySelectionBehavior = "markers"]
\* marker + marker inserted at the caret, the caret between the two.
InsertedAtCaret(text, pos, marker, result) ==
    /\ result.text = Slice(text, 0, pos) \o marker \o marker \o Slice(text, pos, Len(text))
    /\ result.selection = [from |-> pos + Len(marker), to |-> pos + Len(marker)]

\* C13: with 'word' an empty selection is expanded to the maximal run of
\* word characters containing or touching the caret before the command is
\* applied (the result is that of the command on the run), and stays empty
\* when there is no such character; with 'markers' it is never expanded; a
\* marker command on an empty target inserts marker + marker with the caret
\* between them; italic at {4,4} of "A paragraph with text" gives
\* "A _paragraph_ with text".
C13_EmptySelectionPolicy ==
    CaretGiven =>
        LET pos == GivenSelection.from
            run == WordRun(fText, pos)
            expands == fPrefs.emptySelectionBehavior = "word" /\ run.from < run.to
        IN /\ expands =>
                fRes1 = applyCommandToText(fText, run, fCmd, WithMarkers(fPrefs), fOpts)
           /\ (~expands /\ fCmd \in MarkerCommands) =>
                InsertedAtCaret(fText, pos, MarkerOf(fCmd, fPrefs), fRes1)
           /\ (/\ fText = WordExample
               /\ pos = 4
               /\ fPrefs = [emptySelectionBehavior |-> "word",
                            italicDelimiter |-> "underscore"])
                => fRes1.text = WordExampleResult
\* The caret at the right end of a word has been expanded to that word.
C13_ExpandedLeftward ==
    /\ CaretGiven
    /\ fPrefs.emptySelectionBehavior = "word"
    /\ fCmd = "bold"
    /\ fText = <<"*", "a", "a">>
    /\ GivenSelection.from = 3
    /\ fRes1.text = <<"*", "*", "*", "a", "a", "*", "*">>

\* The range the command works on: the given selection, or the word at the
\* caret when the policy expands it.
TargetGiven ==
    IF /\ GivenSelection.from = GivenSelection.to
       /\ fPrefs.emptySelectionBehavior = "word"
       /\ WordRun(fText, GivenSelection.from).from < WordRun(fText, GivenSelection.from).to
    THEN WordRun(fText, GivenSelection.from)
    ELSE GivenSelection
\* The labels for which s is [label](url): neither is empty, the label holds
\* no "]" and the url no ")" and no line break.
LinkLabels(s) ==
    {Slice(s, 1, c) : c \in {c \in 2..(Len(s) - 4) :
        /\ s[1] = "["
        /\ \A i \in 1..(c - 1) : CharAt(s, i) # "]"
        /\ Slice(s, c, c + 2) = <<"]", "(">>
        /\ s[Len(s)] = ")"
        /\ \A i \in (c + 2)..(Len(s) - 2) : CharAt(s, i) \notin {")", "\n"}}}
\* The offsets at which a wrapper [...](...) that opens right before r and
\* whose "](" follows right after r can close.
WrapperEnds(text, r) ==
    {e \in (r.to + 2)..(Len(text) - 1) :
        /\ r.from >= 1
        /\ CharAt(text, r.from - 1) = "["
        /\ Slice(text, r.to, r.to + 2) = <<"]", "(">>
        /\ CharAt(text, e) = ")"}
FirstOf(S) == CHOOSE e \in S : \A f \in S : e <= f
SuppliedUrl == IF fOpts.linkUrl = NoUrl THEN DefaultUrl ELSE fOpts.linkUrl
LinkMarkup(label, url) == <<"[">> \o label \o <<"]", "(">> \o url \o <<")">>

C15_SelectionClampedFirst ==
    fStage >= 1 =>
        /\ 0 <= GivenSelection.from
        /\ GivenSelection.from <= GivenSelection.to
        /\ GivenSelection.to <= Len(fText)
        /\ fRes1 = applyCommandToText(fText, GivenSelection, fCmd, fPrefs, fOpts)
        /\ 0 <= fRes1.selection.from
        /\ fRes1.selection.from <= fRes1.selection.to
        /\ fRes1.selection.to <= Len(fRes1.text)
\* A command has run on a reversed selection with both ends outside the text.
C15_OutsideAndReversed ==
    /\ fStage = 1
    /\ Len(fText) >= 2
    /\ fSel.from > Len(fText)
    /\ fSel.to < 0
    /\ fRes1.changed

(***************************************************************************)
(* Claims about the grid of the table widget (SpecGrid).                   *)
(***************************************************************************)
\* The grid of a drawn table has at least one data row and two columns.
GridShape(view) ==
    /\ Len(view.domHeaders) >= 2
    /\ Len(view.domRows) >= 1
    /\ \A r \in 1..Len(view.domRows) : Len(view.domRows[r]) >= 2
\* The table markup of the document has at least one data row and two
\* columns.
MarkupShape(doc, tree) ==
    /\ \E i \in 1..Len(tree) : tree[i].name = "Table"
    /\ \A i \in 1..Len(tree) :
          tree[i].name = "Table" =>
              /\ parseTableText(Slice(doc, tree[i].from, tree[i].to)).ok
              /\ Len(parseTableText(Slice(doc, tree[i].from, tree[i].to)).headers) >= 2
              /\ Len(parseTableText(Slice(doc, tree[i].from, tree[i].to)).rows) >= 1
SameGrid(view, other) ==
    view.domHeaders = other.domHeaders /\ view.domRows = other.domRows
\* A deletion request arrives while the grid is at its floor.
RowRequestAtFloor ==
    /\ ev'.type = "deleteRow"
    /\ activeCell # NoCell
    /\ Len(tables[activeCell.view].domRows) <= 1
ColumnRequestAtFloor ==
    /\ ev'.type = "deleteColumn"
    /\ \A v \in 1..Len(tables) : Len(tables[v].domHeaders) <= 2

\* C16: from a grid of at least one data row and two columns on, after any
\* sequence of cell edits, insertions and deletion requests, the grid and the
\* table markup in the document have at least one data row and two columns,
\* and a deletion request at the floor changes neither grid nor document.
C16_MinimumShape ==
    /\ [](\A v \in 1..Len(tables) : tables[v].attached => GridShape(tables[v]))
    /\ []MarkupShape(viewDoc, viewTree)
    /\ [][(RowRequestAtFloor \/ ColumnRequestAtFloor) =>
            /\ viewDoc' = viewDoc
            /\ Len(tables') = Len(tables)
            /\ \A v \in 1..Len(tables) : SameGrid(tables'[v], tables[v])]_vars
\* A column was deleted, and the next request for a column found the floor.
C16_ColumnFloorReached ==
    /\ ev.type = "deleteColumn"
    /\ ~ev.synced
    /\ inputs = MaxInputs
    /\ \E v \in 1..Len(tables) : Len(tables[v].domHeaders) = 2

\* The text sync() would write for the grid as it is drawn.
DrawnMarkup(view) ==
    reconstructMarkdown(view.domHeaders, view.domRows, view.liveAligns)
\* The document holds every drawn grid at the offsets its widget stores.
WrittenBack ==
    \A v \in 1..Len(tables) :
        /\ tables[v].w.docTo <= Len(viewDoc)
        /\ Slice(viewDoc, tables[v].w.docFrom, tables[v].w.docTo) = DrawnMarkup(tables[v])

\* C17: once a cell edit has happened, the grid is eventually read again and
\* written back: the document slice at the stored offsets of the table
\* equals the markup reconstructed from the grid.
C17_EditWrittenBack == (ev.type = "edit") ~> WrittenBack
\* The same once the focus has left the table for good.
EditWrittenBackOnLeave ==
    <>[](activeCell = NoCell) => ((ev.type = "edit") ~> WrittenBack)

(***************************************************************************)
(* Claims about the link protocol (SpecLink).                              *)
(***************************************************************************)
\* The step is a link command without a url.
LinkRequested == ev'.type = "linkRequest" /\ inputs' = inputs + 1
\* The step runs the link formatting, in the focused cell or in the editor.
LinkRuns == ev'.type = "command" /\ ev'.command = "link" /\ toView' # toView
\* The step receives a LinkInputResult with no url.
LinkCancelled == toView # << >> /\ toView' = Tail(toView) /\ Head(toView) \in {NoUrl, << >>}
\* What the link formatting makes of the selection or the focused cell of
\* the state the result arrives in.
LinkOnCurrent(url) ==
    IF activeCell = NoCell
    THEN /\ viewDoc' = applyFormattingToEditor(viewDoc, viewSel, "link", prefs,
                                               [linkUrl |-> url]).local.nextText
         /\ ev'.editorRan
    ELSE /\ viewDoc' = viewDoc
         /\ ev'.handled
         /\ \E from \in {0, Len(activeText)} :
               cellText(tables'[activeCell.view], activeCell) =
                   applyCommandToText(activeText, [from |-> from, to |-> Len(activeText)],
                                      "link", prefs, [linkUrl |-> url]).text

\* C18: a link command without a url leaves document and selection alone
\* and sends one url request to the host; the link formatting runs only in
\* the step that receives a LinkInputResult with a non-empty url, on the
\* selection or focused cell of that moment; a result without a url leaves
\* document and selection unchanged.
C18_LinkTwoStep ==
    [][ /\ LinkRequested =>
            /\ viewDoc' = viewDoc /\ viewSel' = viewSel /\ tables' = tables
            /\ toHost' = toHost + 1 /\ toView' = toView
        /\ (ev'.type = "command" /\ ev' # ev) =>
            /\ toView # << >> /\ toView' = Tail(toView)
            /\ Head(toView) = LinkUrl
            /\ LinkOnCurrent(Head(toView))
        /\ LinkCancelled => viewDoc' = viewDoc /\ viewSel' = viewSel
        /\ (viewDoc' # viewDoc) => (LinkRuns \/ ev'.synced) ]_vars
\* A request was answered with a url and the link was made of the word at
\* the caret the editor had when the result arrived.
C18_LinkAppliedOnResult ==
    /\ ev.type = "command" /\ ev.command = "link" /\ ev.editorRan
    /\ toHost = 0 /\ toView = << >>
    /\ viewDoc \notin GridDocs
    /\ inputs >= 1

(***************************************************************************)
(* Claims about isRangeSelected (SpecOverlap).                             *)
(***************************************************************************)
\* The caret of the range is within [from, to], both ends included.
CaretWithin(range, from, to) == from <= range.head /\ range.head <= to
\* The range is non-empty and has a position in common with [from, to).
IntersectsNode(range, from, to) ==
    range.from # range.to /\ range.from < to /\ range.to > from

\* C19: isRangeSelected answers true exactly when some selection range has
\* its caret within [from, to] or is non-empty and intersects [from, to),
\* whichever end of the range the caret is.
C19_OverlapPolicy ==
    ev.type = "overlap" =>
        (ev.selected <=>
            \E i \in 1..Len(ev.ranges) :
                CaretWithin(ev.ranges[i], ev.from, ev.to)
                    \/ IntersectsNode(ev.ranges[i], ev.from, ev.to))

(***************************************************************************)
(* Claims about the overlap guard of applyFormattingToEditor (SpecOrch).   *)
(***************************************************************************)
\* The ranges the loop processed, in the order it processed them, as they
\* were in the selection.
ProcessedRange(k) == ev.selection.ranges[ev.local.processedIndices[k]]
\* The range processed k-th ends strictly before the start of every edit
\* committed before it.
BeforeCommitted(k) ==
    \A j \in 1..(k - 1) :
        j <= Len(ev.local.changes) => ProcessedRange(k).to < ev.local.changes[j].from
\* The skipped range ends at or after the start of a committed edit.
ReachesCommitted(index) ==
    \E j \in 1..Len(ev.local.changes) :
        ev.selection.ranges[index].to >= ev.local.changes[j].from

\* C20: applyFormattingToEditor processes the ranges in descending order of
\* start offset; a range is processed only when its end is strictly before
\* the start of every edit already committed, and every skipped range ends
\* at or after the start of a committed edit.
C20_OverlapGuard ==
    ev.type = "format" =>
        /\ \A k \in 1..Len(ev.local.processedIndices) :
              /\ BeforeCommitted(k)
              /\ \A j \in 1..(k - 1) : ProcessedRange(j).from >= ProcessedRange(k).from
        /\ \A s \in 1..Len(ev.local.skipped) : ReachesCommitted(ev.local.skipped[s])

(***************************************************************************)
(* Claims about the combined change of applyFormattingToEditor (SpecOrch). *)
(***************************************************************************)
\* Two of the sorted edit descriptors overlap: one starts before an earlier
\* one has ended.
DescriptorsOverlap(changes) ==
    \E i \in 1..Len(changes), j \in 1..Len(changes) :
        i < j /\ changes[j].from < changes[i].to

\* C21: when the sorted edit descriptors of a command overlap, nothing is
\* dispatched and the document and the selection stay as they were.
C21_OverlapRefused ==
    (ev.type = "format" /\ DescriptorsOverlap(sortChanges(ev.local.changes))) =>
        /\ ~ev.returned
        /\ viewDoc = ev.doc
        /\ viewSel = ev.selection

(***************************************************************************)
(* Claims about the marker toggle (SpecEngine).                            *)
(***************************************************************************)
\* A marker command has been applied to a non-empty target.
MarkerOnTarget ==
    /\ fStage >= 1
    /\ fCmd \in {"bold", "italic", "strikethrough"}
    /\ TargetGiven.from < TargetGiven.to
\* s is wrapped by the marker at both ends; a one-character marker is not
\* doubled at either end.
ExactlyWrapped(s, marker) ==
    /\ Len(s) >= 2 * Len(marker)
    /\ StartsWith(s, marker) /\ EndsWith(s, marker)
    /\ Len(marker) = 1 => ~StartsWith(s, marker \o marker) /\ ~EndsWith(s, marker \o marker)
\* The marker stands immediately before and immediately after the target.
StandsAround(text, target, marker) ==
    /\ target.from >= Len(marker)
    /\ target.to + Len(marker) <= Len(text)
    /\ Slice(text, target.from - Len(marker), target.from) = marker
    /\ Slice(text, target.to, target.to + Len(marker)) = marker
\* A one-character marker around the target is not doubled on either side.
NotDoubledAround(text, target, marker) ==
    Len(marker) = 1 =>
        /\ CharAt(text, target.from - 2) # marker[1]
        /\ CharAt(text, target.to + 1) # marker[1]
Spliced(text, from, to, insert) == Slice(text, 0, from) \o insert \o Slice(text, to, Len(text))
\* The three cases of the toggle in their order; `around` decides the second.
Toggled(text, target, marker, around) ==
    IF ExactlyWrapped(Slice(text, target.from, target.to), marker)
    THEN [text |-> Spliced(text, target.from, target.to,
                           Slice(text, target.from + Len(marker), target.to - Len(marker))),
          selection |-> [from |-> target.from, to |-> target.to - 2 * Len(marker)]]
    ELSE IF around
    THEN [text |-> Spliced(text, target.from - Len(marker), target.to + Len(marker),
                           Slice(text, target.from, target.to)),
          selection |-> [from |-> target.from - Len(marker),
                         to |-> target.to - Len(marker)]]
    ELSE [text |-> Spliced(text, target.from, target.to,
                           marker \o Slice(text, target.from, target.to) \o marker),
          selection |-> [from |-> target.from + Len(marker),
                         to |-> target.to + Len(marker)]]
ToggleResult == [text |-> fRes1.text, selection |-> fRes1.selection]

HasClosingFence(tree, i) ==
    \E k \in 1..Len(tree) :
        tree[k].parent = i /\ tree[k].name = "CodeMark" /\ tree[k].from > tree[i].from
\* A Widget or Hide overlay lies over the node.
Replaced(value, node) ==
    \E d \in 1..Len(value) :
        /\ value[d].type = "replace"
        /\ value[d].from <= node.to /\ value[d].to >= node.from

\* C23: a FencedCode node is replaced by a code-block widget only if it has
\* a closing fence; without one it gets no Widget and no Hide.
C23_UnclosedFencePlain ==
    \A i \in 1..Len(viewTree) :
        (viewTree[i].name = "FencedCode" /\ Replaced(decos, viewTree[i]))
            => HasClosingFence(viewTree, i)

(***************************************************************************)
(* Claims about the table model (SpecTable).                               *)
(***************************************************************************)
\* C24: every table model parseTableText builds has, in every data row, as
\* many columns as it has headers.
C24_RowsMatchHeaders ==
    (ev.type = "tableModel" /\ ev.model.ok) =>
        \A r \in 1..Len(ev.model.rows) : Len(ev.model.rows[r]) = Len(ev.model.headers)

(***************************************************************************)
(* Claims about the edit descriptor of a result (SpecEngine).              *)
(***************************************************************************)
\* The descriptor of `result` lies within `text` and, applied to it, gives
\* the text of the result.
DescribesEdit(text, result) ==
    /\ 0 <= result.change.from
    /\ result.change.from <= result.change.to
    /\ result.change.to <= Len(text)
    /\ Spliced(text, result.change.from, result.change.to, result.change.insert)
         = result.text

\* C25: whenever applyCommandToText returns changed, replacing
\* input[change.from, change.to) by change.insert gives exactly the returned
\* text, with 0 <= change.from <= change.to <= the input's length.
C25_DescriptorProducesText ==
    /\ (fStage >= 1 /\ fRes1.changed) => DescribesEdit(fText, fRes1)
    /\ (fStage = 2 /\ fRes2.changed) => DescribesEdit(fRes1.text, fRes2)
\* A changed result whose descriptor replaces a non-empty range that lies
\* strictly inside the input, for a selection given out of order.
C25_InnerRangeReplaced ==
    /\ fStage = 1
    /\ fRes1.changed
    /\ fSel.from > fSel.to
    /\ 0 < fRes1.change.from
    /\ fRes1.change.from < fRes1.change.to
    /\ fRes1.change.to < Len(fText)
    /\ fRes1.text # fText

(***************************************************************************)
(* Claims about the synchronisation of edits (SpecSync, SpecSyncLive).     *)
(***************************************************************************)
\* The timeouts of handleEdit that are pending in the host.
EditTimeouts == {t \in workspace.timeouts : t.kind = "edit"}
\* The timeout sendEdit set last in panel p is pending, with content c.
WebPending(p, c) ==
    [id |-> webviews[p].editTimer, content |-> c] \in webviews[p].timeouts
\* The timeout handleEdit set last is pending, for document d with content c.
HostPending(d, c) ==
    /\ provider.pendingEdit = c
    /\ [id |-> provider.editTimer, kind |-> "edit", document |-> d, panel |-> 0]
          \in workspace.timeouts
\* applyEdit has been called for document d with content c.
Applying(d, c) ==
    \E i \in 1..Len(workspace.applying) :
        workspace.applying[i] = [document |-> d, content |-> c, landed |-> FALSE]
\* At most one timeout is pending on each channel, and it carries the
\* content of the latest event: the text of the panel, the pendingEdit of
\* the host.
OneTimerWithLatest ==
    /\ \A p \in Panels :
          /\ Cardinality(webviews[p].timeouts) <= 1
          /\ \A t \in webviews[p].timeouts : WebPending(p, webviews[p].content)
    /\ Cardinality(EditTimeouts) <= 1
    /\ \A t \in EditTimeouts :
          provider.pendingEdit # NoContent /\ HostPending(t.document, provider.pendingEdit)
\* A step that posts an Edit posts the pending content of the panel; a step
\* that calls applyEdit hands it the pending content of the host; an event
\* that arrives leaves its own content pending.
ForwardsLatest ==
    /\ \A p \in Panels :
          Len(webviews'[p].toHost) > Len(webviews[p].toHost) =>
             /\ WebPending(p, webviews[p].content)
             /\ webviews'[p].toHost = Append(webviews[p].toHost, webviews[p].content)
    /\ Len(workspace'.applying) > Len(workspace.applying) =>
          \E d \in Documents :
             /\ HostPending(d, provider.pendingEdit)
             /\ workspace'.applying =
                   Append(workspace.applying,
                          [document |-> d, content |-> provider.pendingEdit,
                           landed |-> FALSE])
    /\ \A p \in Panels :
          Len(webviews'[p].toHost) < Len(webviews[p].toHost) =>
             /\ provider'.pendingEdit = Head(webviews[p].toHost)
             /\ EditTimeouts' = {[id |-> provider'.editTimer, kind |-> "edit",
                                  document |-> workspace.panelDocument[p], panel |-> 0]}

\* C26: on the two debounced channels (sendEdit of a webview, handleEdit of
\* the host) a new event clears the pending timeout: at most one timeout is
\* pending, a superseded content is never forwarded, and a pending content
\* is eventually forwarded unless a later event takes its place.
C26_Debounce ==
    /\ []OneTimerWithLatest
    /\ [][ForwardsLatest]_vars
    /\ \A p \in Panels, c \in Contents :
          WebPending(p, c) ~>
             \/ ev = SyncEv("Edit", p, workspace.panelDocument[p], c, FALSE)
             \/ \E c2 \in Contents \ {c} : WebPending(p, c2)
    /\ \A d \in Documents, c \in Contents :
          HostPending(d, c) ~>
             \/ Applying(d, c)
             \/ \E d2 \in Documents, c2 \in Contents :
                   <<d2, c2>> # <<d, c>> /\ HostPending(d2, c2)
\* An Edit has arrived at the host while another was pending, and has taken
\* its place.
C26_HostSuperseded ==
    /\ ev.type = "handleEdit"
    /\ ev.cleared
    /\ Cardinality(EditTimeouts) = 1
    /\ HostPending(ev.document, ev.content)

\* Nothing is pending: no timeout, no message, no applyEdit call.
Quiescent ==
    /\ workspace.timeouts = {}
    /\ workspace.applying = << >>
    /\ \A p \in Panels :
          /\ webviews[p].timeouts = {}
          /\ webviews[p].toHost = << >>
          /\ webviews[p].fromHost = << >>

\* C29: with the panels on the same document and no change from elsewhere,
\* once nothing is pending every unfocused panel shows the text of the
\* document: the edit made in the other panel has been delivered to it.
C29_PanelsConverge ==
    (/\ Quiescent
     /\ workspace.external = 0
     /\ \A p \in Panels : workspace.panelDocument[p] = "A")
    => \A q \in Panels :
          ~provider.focusedWebviews[q] => webviews[q].content = workspace.text["A"]

\* C30: an Edit pending in the host for a document stays pending for that
\* document, with its content or with that of a newer Edit for the same
\* document, until applyEdit is called for the document with that content.
C30_EditNotDropped ==
    [][\A d \in Documents, c \in Contents :
          HostPending(d, c) =>
             \/ Applying(d, c)'
             \/ \E c2 \in Contents : HostPending(d, c2)']_vars

(***************************************************************************)
(* Claims about the combined change set (SpecOrch).                        *)
(***************************************************************************)
\* C27: when a command has been dispatched, the document (the original one
\* with the combined change set applied) equals nextText, the text the
\* per-range edits give one after another, and every range of the new
\* selection lies within that document.
C27_CombinedEqualsSequential ==
    (ev.type = "format" /\ ev.returned) =>
        /\ viewDoc = ev.local.nextText
        /\ \A i \in 1..Len(viewSel.ranges) :
              /\ 0 <= viewSel.ranges[i].from
              /\ viewSel.ranges[i].from <= viewSel.ranges[i].to
              /\ viewSel.ranges[i].to <= Len(viewDoc)

(***************************************************************************)
(* Claims about carets and replaced ranges (SpecDeco).                     *)
(***************************************************************************)
\* C28: no caret of the selection lies strictly inside the range an overlay
\* replaces (a Hide, or a Widget that stands for a range), also when that
\* range is wider than the node tested against the selection.
C28_NoCaretInsideReplaced ==
    \A d \in 1..Len(decos), i \in 1..Len(viewSel.ranges) :
        (decos[d].type = "replace" /\ viewSel.ranges[i].from = viewSel.ranges[i].to)
            => ~(decos[d].from < viewSel.ranges[i].from
                   /\ viewSel.ranges[i].from < decos[d].to)
====
